---- MODULE Spec2Model ----
(***************************************************************************)
(* Matching, scoring and temporal-comparison engine of the BIM progress    *)
(* analysis service (app/services).                                        *)
(*                                                                         *)
(* Numbers.  Scores and confidences are fixed-point integers in            *)
(* thousandths (0.85 is 850); overall_progress is in hundredths of a       *)
(* percent (37.5 is 3750).  Python's round(x, n) is modelled by            *)
(* round-half-to-even on the exact quotient.                               *)
(*                                                                         *)
(* Strings that the code normalises (element_type, name) are sequences of  *)
(* one-character strings, so that lower() and strip() are computed.        *)
(***************************************************************************)
EXTENDS Integers, Sequences, FiniteSets, TLC

VARIABLES
    mergePc,      \* "idle" | "call" | "done" : position of the merger call
    mergeIn,      \* arguments of _merge_detection_results: [v, k]
    mergeOut,     \* its return value (valid when mergePc = "done")
    progPc,       \* "idle" | "call" | "done" : position of the progress call
    progIn,       \* arguments of the progress calculators
    progOut,      \* [fn, overall_progress, ...] (valid when progPc = "done")
    dedupePc,     \* "idle" | "call" | "once" | "twice" : dedupe passes made
    dedupeFn,     \* which deduplicator ran: "dedupe_elements" | "dedupe_ifc_elements"
    dedupeIn,     \* the raw record list
    dedupeOut1,   \* the groups returned by the first pass
    dedupeOut2,   \* the groups returned when dedupeOut1 is fed back
    vecPc,        \* "idle" | "call" | "done" : position of the vector retrieval
    vecIn,        \* [hits, target_ids, index_up, schema_rejects]
    vecOut,       \* [fn, detected] (valid when vecPc = "done")
    anPc,         \* position of analyze_construction_image: "idle" | "start" |
                  \* "described" | "embedded" | "searched" | "done" | "raised"
    project_data, \* [elements] : the catalog of the analysed project
    index,        \* [hits, schema_rejects] : what the vector index holds
    target_element_ids,
    an,           \* locals and result of the running analysis
    alertPc,      \* "idle" | "call" | "identified" | "saved"
    alertIn,      \* [detected_elements, project_data] given to identify_alerts
    alertOut,     \* [fn, alerts, stored] : the alert texts and the AlertModel rows
    cmpPc,        \* "idle" | "call" | "done" : position of the comparator call
    cmpIn,        \* [current_elements, previous_analysis, total_elements]
    cmpOut,       \* the comparison dict returned
    tlPc,         \* "idle" | "call" | "done" : position of the timeline request
    tlIn,         \* the stored analyses of the project
    tlOut,        \* the timeline response
    batchPc,      \* position of analyze_images_batch and of each of its tasks
    batch,        \* the semaphore, the tasks in flight and the results
    analyzePc,    \* position of the POST /analyze request
    analyzeReq,   \* the request, the stores it writes and its response
    compareRoutePc, \* "idle" | "call" | "responded" : GET /compare/{project_id}
    compareRoute, \* the analyses table, the request and the response
    vlmPc,        \* position of VLMStructuredOutput.analyze
    vlm           \* [max_retries, attempt, tries, result]

vars == <<mergePc, mergeIn, mergeOut, progPc, progIn, progOut,
          dedupePc, dedupeFn, dedupeIn, dedupeOut1, dedupeOut2,
          vecPc, vecIn, vecOut,
          anPc, project_data, index, target_element_ids, an,
          alertPc, alertIn, alertOut, cmpPc, cmpIn, cmpOut,
          tlPc, tlIn, tlOut, batchPc, batch,
          analyzePc, analyzeReq, compareRoutePc, compareRoute, vlmPc, vlm>>

mergeVars  == <<mergePc, mergeIn, mergeOut>>
progVars   == <<progPc, progIn, progOut>>
dedupeVars == <<dedupePc, dedupeFn, dedupeIn, dedupeOut1, dedupeOut2>>

vecVars    == <<vecPc, vecIn, vecOut>>

anVars     == <<anPc, project_data, index, target_element_ids, an>>

alertVars  == <<alertPc, alertIn, alertOut>>

\* the parts of the engine that run after an analysis has produced its result
cmpVars    == <<cmpPc, cmpIn, cmpOut>>
tlVars     == <<tlPc, tlIn, tlOut>>
batchVars  == <<batchPc, batch>>

\* the HTTP routes and the structured-output client
analyzeVars      == <<analyzePc, analyzeReq>>
compareRouteVars == <<compareRoutePc, compareRoute>>
vlmVars          == <<vlmPc, vlm>>
serviceVars      == <<analyzeVars, compareRouteVars, vlmVars>>
laterVars  == <<alertVars, cmpVars, tlVars, batchVars, serviceVars>>

otherThanMerge    == <<progVars, dedupeVars, vecVars, anVars, laterVars>>
otherThanProgress == <<mergeVars, dedupeVars, vecVars, anVars, laterVars>>
otherThanDedupe   == <<mergeVars, progVars, vecVars, anVars, laterVars>>
otherThanVector   == <<mergeVars, progVars, dedupeVars, anVars, laterVars>>
otherThanAnalysis == <<mergeVars, progVars, dedupeVars, vecVars, laterVars>>
engineVars        == <<mergeVars, progVars, dedupeVars, vecVars, anVars>>
otherThanAlerts   == <<engineVars, cmpVars, tlVars, batchVars, serviceVars>>
otherThanCompare  == <<engineVars, alertVars, tlVars, batchVars, serviceVars>>
otherThanTimeline == <<engineVars, alertVars, cmpVars, batchVars, serviceVars>>
otherThanBatch    == <<engineVars, alertVars, cmpVars, tlVars, serviceVars>>
engineAndLaterVars == <<engineVars, alertVars, cmpVars, tlVars, batchVars>>
otherThanAnalyze      == <<engineAndLaterVars, compareRouteVars, vlmVars>>
otherThanCompareRoute == <<engineAndLaterVars, analyzeVars, vlmVars>>
otherThanVlm          == <<engineAndLaterVars, analyzeVars, compareRouteVars>>

\* Python's None, for an optional count or list argument
None == -1

----------------------------------------------------------------------------
(* Bounds of the model *)

MaxVec == 3          \* longest vector result list given to the merger
MaxKw  == 2          \* longest keyword result list given to the merger

MaxDetected == 3     \* longest detected-element list given to the calculators
MaxTotal == 4        \* largest total element count given to the calculators
MaxRecords == 3      \* longest record list given to the deduplicators
MaxHits == 3         \* most hits returned by one vector index search
MaxCatalog == 2      \* most elements in the catalog of the analysed project
MaxIndexed == 2      \* most hits the index returns to an analysis

----------------------------------------------------------------------------
(* Each specification exercises one part of the engine; the variables of   *)
(* the other parts stay in their idle state.                                *)

IdleMerge ==
    /\ mergePc = "idle"
    /\ mergeIn = [v |-> <<>>, k |-> <<>>]
    /\ mergeOut = <<>>

IdleProgress ==
    /\ progPc = "idle"
    /\ progIn = [detected |-> <<>>, total |-> 0]
    /\ progOut = [fn |-> "none", overall_progress |-> 0]

IdleDedupe ==
    /\ dedupePc = "idle"
    /\ dedupeFn = "none"
    /\ dedupeIn = <<>>
    /\ dedupeOut1 = <<>>
    /\ dedupeOut2 = <<>>

\* target_ids = None
NoTargetIds == {"None"}

IdleVector ==
    /\ vecPc = "idle"
    /\ vecIn = [hits |-> <<>>, target_ids |-> NoTargetIds,
                index_up |-> TRUE, schema_rejects |-> FALSE]
    /\ vecOut = [fn |-> "none", detected |-> <<>>]

NoDescription == [mention |-> <<>>, cues |-> {}]

FreshAnalysis ==
    [description |-> NoDescription, description_embedding |-> "none",
     embedding_model_ok |-> TRUE, index_up |-> TRUE,
     vector_matches |-> <<>>, keyword_matches |-> <<>>,
     detected_elements |-> <<>>, overall_progress |-> 0, alerts |-> <<>>,
     failed_at |-> "none"]

IdleAnalysis ==
    /\ anPc = "idle"
    /\ project_data = [elements |-> <<>>]
    /\ index = [hits |-> <<>>, schema_rejects |-> FALSE]
    /\ target_element_ids = NoTargetIds
    /\ an = FreshAnalysis

IdleAlerts ==
    /\ alertPc = "idle"
    /\ alertIn = [detected_elements |-> <<>>, project_data |-> [elements |-> <<>>]]
    /\ alertOut = [fn |-> "none", alerts |-> <<>>, stored |-> <<>>]

NoComparison ==
    [progress_change |-> 0, elements_added |-> <<>>, elements_removed |-> <<>>,
     elements_changed |-> <<>>, fell_back |-> FALSE]

IdleCompare ==
    /\ cmpPc = "idle"
    /\ cmpIn = [current_elements |-> <<>>, total_elements |-> 0,
                previous_analysis |-> [overall_progress |-> 0, detected_elements |-> <<>>]]
    /\ cmpOut = NoComparison

IdleTimeline ==
    /\ tlPc = "idle"
    /\ tlIn = <<>>
    /\ tlOut = <<>>

IdleBatch ==
    /\ batchPc = "idle"
    /\ batch = [max_concurrent |-> 0, value |-> 0, task |-> <<>>, processed_results |-> <<>>]

\* no request in progress, empty stores
NoRequest ==
    [project_exists |-> FALSE, history |-> 0, uploaded |-> FALSE,
     analysis_result |-> [succeeded |-> FALSE],
     analyses |-> <<>>, saved_alerts |-> 0, status |-> 0, comparison |-> 0]

IdleAnalyze ==
    /\ analyzePc = "idle"
    /\ analyzeReq = NoRequest

IdleCompareRoute ==
    /\ compareRoutePc = "idle"
    /\ compareRoute = [project_exists |-> FALSE, table |-> <<>>, analysis_ids |-> <<>>,
                       status |-> 0, comparisons |-> <<>>, differences |-> <<>>]

IdleVlm ==
    /\ vlmPc = "idle"
    /\ vlm = [max_retries |-> 0, attempt |-> 0, tries |-> <<>>, result |-> "None"]

IdleService == IdleAnalyze /\ IdleCompareRoute /\ IdleVlm

IdleLater == IdleAlerts /\ IdleCompare /\ IdleTimeline /\ IdleBatch /\ IdleService

IdleEngine == IdleMerge /\ IdleProgress /\ IdleDedupe /\ IdleVector /\ IdleAnalysis

----------------------------------------------------------------------------
(* Generic helpers *)

Range(s) == {s[i] : i \in 1..Len(s)}

SeqsUpTo(S, n) == UNION {[1..m -> S] : m \in 0..n}

\* round(num/den, .) to the nearest integer, ties to even (den > 0)
RoundHalfEven(num, den) ==
    LET q == num \div den
        r == num % den
    IN  IF 2 * r < den THEN q
        ELSE IF 2 * r > den THEN q + 1
        ELSE IF q % 2 = 0 THEN q ELSE q + 1

\* A Python dict: keys in insertion order plus the value of every key.
EmptyDict == [keys |-> <<>>, val |-> <<>>]

DictHas(d, k) == k \in Range(d.keys)

DictGet(d, k) == d.val[CHOOSE i \in 1..Len(d.keys) : d.keys[i] = k]

\* an ordered mapping that moves an assigned key to the end
DictSetMovingToEnd(d, k, v) ==
    LET keep == SelectSeq([i \in 1..Len(d.keys) |-> i], LAMBDA i : d.keys[i] # k)
    IN  [keys |-> Append([j \in 1..Len(keep) |-> d.keys[keep[j]]], k),
         val |-> Append([j \in 1..Len(keep) |-> d.val[keep[j]]], v)]

\* d[k] = v : a new key goes last, an existing key keeps its position
DictSet(d, k, v) ==
    IF DictHas(d, k)
    THEN [d EXCEPT !.val[CHOOSE i \in 1..Len(d.keys) : d.keys[i] = k] = v]
    ELSE [keys |-> Append(d.keys, k), val |-> Append(d.val, v)]

\* list(d.values())
DictValues(d) == d.val

----------------------------------------------------------------------------
(* Domain values *)

ProgressStatus == {"COMPLETED", "IN_PROGRESS", "NOT_STARTED"}

ElementIds == {"e1", "e2"}

\* Detections handed to the merger.  "source" is a ghost tag recording which
\* retrieval path built the record; the merger never reads it.
VectorDetections ==
    [element_id : ElementIds, status : ProgressStatus,
     confidence : {920}, source : {"VECTOR"}]

KeywordDetections ==
    [element_id : ElementIds, status : ProgressStatus,
     confidence : {850}, source : {"KEYWORD"}]

----------------------------------------------------------------------------
(* BIMAnalysisService._merge_detection_results *)

RECURSIVE AddVector(_, _)
AddVector(merged, rs) ==
    IF rs = <<>> THEN merged
    ELSE AddVector(DictSet(merged, Head(rs).element_id, Head(rs)), Tail(rs))

RECURSIVE AddKeywordOverwriting(_, _)
AddKeywordOverwriting(merged, rs) ==
    IF rs = <<>> THEN merged
    ELSE AddKeywordOverwriting(DictSet(merged, Head(rs).element_id, Head(rs)), Tail(rs))

RECURSIVE AddKeyword(_, _)
AddKeyword(merged, rs) ==
    IF rs = <<>> THEN merged
    ELSE AddKeyword(IF ~DictHas(merged, Head(rs).element_id)
                    THEN DictSet(merged, Head(rs).element_id, Head(rs))
                    ELSE merged,
                    Tail(rs))

merge_detection_results(vector_results, keyword_results) ==
    DictValues(AddKeyword(AddVector(EmptyDict, vector_results), keyword_results))

----------------------------------------------------------------------------
(* Specification SpecMerge: the merger applied to arbitrary result lists *)

InitMerge ==
    /\ mergePc = "call"
    /\ mergeIn \in [v : SeqsUpTo(VectorDetections, MaxVec),
                    k : SeqsUpTo(KeywordDetections, MaxKw)]
    /\ mergeOut = <<>>
    /\ IdleProgress /\ IdleDedupe /\ IdleVector /\ IdleAnalysis /\ IdleLater

MergeDetectionResults ==
    /\ mergePc = "call"
    /\ mergeOut' = merge_detection_results(mergeIn.v, mergeIn.k)
    /\ mergePc' = "done"
    /\ UNCHANGED <<mergeIn, otherThanMerge>>

NextMerge == MergeDetectionResults

SpecMerge == InitMerge /\ [][NextMerge]_vars

IdsOf(rs) == {rs[i].element_id : i \in 1..Len(rs)}

\* C1: every element_id of V is represented in the output by a record of V
\* (vector status and confidence), also when K holds that id; a record of K
\* is in the output only if its element_id occurs nowhere in V.
C1_VectorWins ==
    mergePc = "done" =>
        /\ \A id \in IdsOf(mergeIn.v) :
              \E i \in 1..Len(mergeOut) :
                 /\ mergeOut[i].element_id = id
                 /\ mergeOut[i] \in Range(mergeIn.v)
        /\ \A i \in 1..Len(mergeOut) :
              /\ mergeOut[i] \in Range(mergeIn.v) \cup Range(mergeIn.k)
              /\ mergeOut[i].source = "KEYWORD" =>
                    mergeOut[i].element_id \notin IdsOf(mergeIn.v)

\* C1 witness: an id found by both paths with different statuses was merged
C1_Witness ==
    /\ mergePc = "done"
    /\ \E i \in 1..Len(mergeIn.v), j \in 1..Len(mergeIn.k) :
          /\ mergeIn.v[i].element_id = mergeIn.k[j].element_id
          /\ mergeIn.v[i].status # mergeIn.k[j].status
    /\ \E j \in 1..Len(mergeIn.k) : mergeIn.k[j] \in Range(mergeOut)

----------------------------------------------------------------------------
(* ProgressCalculator and BIMAnalysisService._calculate_progress_metrics   *)

\* sum(1 for e in detected_elements if e.get("status") == st)
RECURSIVE CountStatus(_, _)
CountStatus(detected_elements, st) ==
    IF detected_elements = <<>> THEN 0
    ELSE (IF Head(detected_elements).status = st THEN 1 ELSE 0)
         + CountStatus(Tail(detected_elements), st)

\* round((completed * 1.0 + in_progress * 0.5) / total * 100, 2), in
\* hundredths of a percent
WeightedProgress(completed_count, in_progress_count, total) ==
    RoundHalfEven((2 * completed_count + in_progress_count) * 5000, total)

\* ProgressCalculator.calculate_progress_metrics(detected_elements,
\*     all_elements, total_elements); a list argument is given by its length
calculate_progress_metrics_by_detected(detected_elements, all_elements, total_elements) ==
    IF total_elements = None /\ all_elements \in {None, 0}
    THEN [fn |-> "calculate_progress_metrics", overall_progress |-> 0]
    ELSE IF Len(detected_elements) = 0
    THEN [fn |-> "calculate_progress_metrics", overall_progress |-> 0]
    ELSE LET completed_count == CountStatus(detected_elements, "COMPLETED")
             in_progress_count == CountStatus(detected_elements, "IN_PROGRESS")
         IN  [fn |-> "calculate_progress_metrics",
              overall_progress |->
                  WeightedProgress(completed_count, in_progress_count, Len(detected_elements)),
              detected_count |-> Len(detected_elements),
              completed_count |-> completed_count,
              in_progress_count |-> in_progress_count]

calculate_progress_metrics(detected_elements, all_elements, total_elements) ==
    IF total_elements = None /\ all_elements \in {None, 0}
    THEN [fn |-> "calculate_progress_metrics", overall_progress |-> 0]
    ELSE LET total == IF total_elements = None THEN all_elements ELSE total_elements
         IN  IF total = 0
             THEN [fn |-> "calculate_progress_metrics", overall_progress |-> 0]
             ELSE LET completed_count == CountStatus(detected_elements, "COMPLETED")
                      in_progress_count == CountStatus(detected_elements, "IN_PROGRESS")
                  IN  [fn |-> "calculate_progress_metrics",
                       overall_progress |->
                           WeightedProgress(completed_count, in_progress_count, total),
                       detected_count |-> Len(detected_elements),
                       completed_count |-> completed_count,
                       in_progress_count |-> in_progress_count]

\* BIMAnalysisService._calculate_progress_metrics(detected_elements, all_elements)
bim_calculate_progress_metrics(detected_elements, all_elements) ==
    IF all_elements = 0
    THEN [fn |-> "_calculate_progress_metrics", overall_progress |-> 0]
    ELSE LET completed_count == CountStatus(detected_elements, "COMPLETED")
             in_progress_count == CountStatus(detected_elements, "IN_PROGRESS")
         IN  [fn |-> "_calculate_progress_metrics",
              overall_progress |->
                  WeightedProgress(completed_count, in_progress_count, all_elements),
              detected_count |-> Len(detected_elements),
              completed_count |-> completed_count,
              in_progress_count |-> in_progress_count]

\* ProgressCalculator.calculate_overall_progress(detected_elements)
calculate_overall_progress(detected_elements) ==
    IF detected_elements = <<>> THEN 0
    ELSE WeightedProgress(CountStatus(detected_elements, "COMPLETED"),
                          CountStatus(detected_elements, "IN_PROGRESS"),
                          Len(detected_elements))

----------------------------------------------------------------------------
(* Specification SpecProgress: the calculators applied to arbitrary        *)
(* detected-element lists and total element counts                         *)

DetectedForProgress == SeqsUpTo([status : ProgressStatus], MaxDetected)

InitProgress ==
    /\ progPc = "call"
    /\ progIn \in [detected : DetectedForProgress, total : 0..MaxTotal]
    /\ progOut = [fn |-> "none", overall_progress |-> 0]
    /\ IdleMerge /\ IdleDedupe /\ IdleVector /\ IdleAnalysis /\ IdleLater

\* progress_calculator.calculate_progress_metrics(detected, total_elements=T)
CalcMetricsTotal ==
    /\ progPc = "call"
    /\ progOut' = calculate_progress_metrics(progIn.detected, None, progIn.total)
    /\ progPc' = "done"
    /\ UNCHANGED <<progIn, otherThanProgress>>

\* progress_calculator.calculate_progress_metrics(detected, all_elements)
CalcMetricsAll ==
    /\ progPc = "call"
    /\ progOut' = [calculate_progress_metrics(progIn.detected, progIn.total, None)
                     EXCEPT !.fn = "calculate_progress_metrics(all_elements)"]
    /\ progPc' = "done"
    /\ UNCHANGED <<progIn, otherThanProgress>>

BimCalcMetrics ==
    /\ progPc = "call"
    /\ progOut' = bim_calculate_progress_metrics(progIn.detected, progIn.total)
    /\ progPc' = "done"
    /\ UNCHANGED <<progIn, otherThanProgress>>

CalcOverall ==
    /\ progPc = "call"
    /\ progOut' = [fn |-> "calculate_overall_progress",
                   overall_progress |-> calculate_overall_progress(progIn.detected)]
    /\ progPc' = "done"
    /\ UNCHANGED <<progIn, otherThanProgress>>

NextProgress == CalcMetricsTotal \/ CalcMetricsAll \/ BimCalcMetrics \/ CalcOverall

SpecProgress == InitProgress /\ [][NextProgress]_vars

MetricsFns == {"calculate_progress_metrics", "calculate_progress_metrics(all_elements)",
               "_calculate_progress_metrics"}

NumWithStatus(detected, st) ==
    Cardinality({i \in 1..Len(detected) : detected[i].status = st})

\* C3: for T > 0 the metrics functions return (C*1.0 + P*0.5)/T*100 rounded
\* to 2 decimals, C and P counting the COMPLETED and IN_PROGRESS detections
\* only; one COMPLETED and one IN_PROGRESS out of 4 give 37.5.
C3_WeightedFormula ==
    (progPc = "done" /\ progOut.fn \in MetricsFns /\ progIn.total > 0) =>
        LET C == NumWithStatus(progIn.detected, "COMPLETED")
            P == NumWithStatus(progIn.detected, "IN_PROGRESS")
        IN  /\ progOut.overall_progress = RoundHalfEven((C * 1000 + P * 500) * 10, progIn.total)
            /\ (C = 1 /\ P = 1 /\ progIn.total = 4) => progOut.overall_progress = 3750

\* C3 witness: scenario A was computed (with an undetected remainder and a
\* NOT_STARTED detection that must not count)
C3_Witness ==
    /\ progPc = "done"
    /\ progOut.fn \in MetricsFns
    /\ progIn.total = 4
    /\ NumWithStatus(progIn.detected, "COMPLETED") = 1
    /\ NumWithStatus(progIn.detected, "IN_PROGRESS") = 1
    /\ NumWithStatus(progIn.detected, "NOT_STARTED") = 1
    /\ progOut.overall_progress = 3750

\* C4 (as claimed): every computation yields overall_progress in [0,100],
\* and 0.0 whenever the total is 0 or the detected list is empty.
C4_ProgressInRange ==
    progPc = "done" =>
        /\ progOut.overall_progress >= 0
        /\ progOut.overall_progress <= 10000
        /\ (progIn.detected = <<>>) => progOut.overall_progress = 0
        /\ (progOut.fn \in MetricsFns /\ progIn.total = 0) => progOut.overall_progress = 0

----------------------------------------------------------------------------
(* Semantic deduplication: IFCProcessorService.dedupe_elements and         *)
(* scripts/test_rag.py dedupe_ifc_elements                                 *)

\* str.lower() on the characters the model uses
LowerChar(c) ==
    CASE c = "W" -> "w"
      [] c = "S" -> "s"
      [] c = "A" -> "a"
      [] c = "B" -> "b"
      [] c = "D" -> "d"
      [] c = "N" -> "n"
      [] c = "R" -> "r"
      [] c = "X" -> "x"
      [] OTHER -> c

LowerStr(str) == [i \in 1..Len(str) |-> LowerChar(str[i])]

RECURSIVE LStrip(_)
LStrip(str) ==
    IF str # <<>> /\ Head(str) = " " THEN LStrip(Tail(str)) ELSE str

RECURSIVE RStrip(_)
RStrip(str) ==
    IF str # <<>> /\ str[Len(str)] = " " THEN RStrip(SubSeq(str, 1, Len(str) - 1)) ELSE str

\* str.strip()
StripStr(str) == RStrip(LStrip(str))

\* A missing or None string field
NoStr == <<"None">>

\* (x or "")
OrEmpty(x) == IF x = NoStr THEN <<>> ELSE x

\* A missing or None element_id / similarity_score
NoId == "None"
NoScore == -1

\* some enumeration of a set without repetition: list(set(...))
RECURSIVE ListOfSet(_)
ListOfSet(S) ==
    IF S = {} THEN <<>>
    ELSE LET x == CHOOSE y \in S : TRUE IN <<x>> \o ListOfSet(S \ {x})

normalized_identity_unstripped(elem) ==
    LowerStr(OrEmpty(elem.element_type)) \o <<"|">> \o LowerStr(OrEmpty(elem.name))

\* IFCProcessorService._normalized_identity: f"{etype}|{name}"
normalized_identity(elem) ==
    LowerStr(StripStr(OrEmpty(elem.element_type))) \o <<"|">>
        \o LowerStr(StripStr(OrEmpty(elem.name)))

\* test_rag.build_normalized_identity: name falls back to element_name
build_normalized_identity(elem) ==
    LowerStr(StripStr(OrEmpty(elem.element_type))) \o <<"|">>
        \o LowerStr(StripStr(OrEmpty(
               IF OrEmpty(elem.name) # <<>> THEN elem.name ELSE elem.element_name)))

\* lines 332-336 / 64-68: make sure the record has a group list and add its
\* own id to it (always, or only when it is not yet there)
WithOwnId(elem, only_if_absent) ==
    LET grp == IF elem.has_group THEN elem.element_ids_group ELSE <<>>
        add == /\ elem.element_id # NoId
               /\ (only_if_absent => elem.element_id \notin Range(grp))
    IN  [elem EXCEPT !.has_group = TRUE,
                     !.element_ids_group = IF add THEN Append(grp, elem.element_id) ELSE grp]

\* IFCProcessorService.dedupe_elements
RECURSIVE dedupe_elements_loop(_, _)
dedupe_elements_loop(seen, elements) ==
    IF elements = <<>> THEN seen
    ELSE LET elem == WithOwnId(Head(elements), FALSE)
             key == normalized_identity(elem)
         IN  IF ~DictHas(seen, key)
             THEN dedupe_elements_loop(DictSet(seen, key, elem), Tail(elements))
             ELSE LET old == DictGet(seen, key)
                      merged == ListOfSet(Range(old.element_ids_group \o elem.element_ids_group))
                  IN  dedupe_elements_loop(
                          DictSet(seen, key, [old EXCEPT !.element_ids_group = merged]),
                          Tail(elements))

dedupe_elements(elements) == DictValues(dedupe_elements_loop(EmptyDict, elements))

\* test_rag.dedupe_ifc_elements
RECURSIVE dedupe_ifc_elements_loop(_, _)
dedupe_ifc_elements_loop(seen, elements) ==
    IF elements = <<>> THEN seen
    ELSE LET elem == WithOwnId(Head(elements), TRUE)
             semantic_key == build_normalized_identity(elem)
         IN  IF ~DictHas(seen, semantic_key)
             THEN dedupe_ifc_elements_loop(DictSet(seen, semantic_key, elem), Tail(elements))
             ELSE LET existing == DictGet(seen, semantic_key)
                      merged == ListOfSet(Range(existing.element_ids_group)
                                          \cup Range(elem.element_ids_group))
                      new_score == elem.similarity_score
                      old_score == existing.similarity_score
                      replace == /\ new_score # NoScore
                                 /\ (old_score = NoScore \/ new_score > old_score)
                  IN  dedupe_ifc_elements_loop(
                          DictSet(seen, semantic_key,
                                  IF replace
                                  THEN [elem EXCEPT !.element_ids_group = merged]
                                  ELSE [existing EXCEPT !.element_ids_group = merged]),
                          Tail(elements))

dedupe_ifc_elements(elements) == DictValues(dedupe_ifc_elements_loop(EmptyDict, elements))

----------------------------------------------------------------------------
(* Specification SpecDedupe: a deduplicator applied to an arbitrary record *)
(* list, then applied again to its own output                              *)

\* element_id of the i-th input record: ids are unique to a record
RecordIds == <<"r1", "r2", "r3", "r4", "r5", "r6">>

\* (element_type, name, element_name) as found in catalog records (name) and
\* in retrieval hits (element_name); the first two denote the same element
RawIdentities ==
    { <<  <<"W">>,       <<"A">>,       NoStr  >>,
      <<  <<" ", "w">>,  <<"a", " ">>,  NoStr  >>,
      <<  <<"S">>,       NoStr,         NoStr  >>,
      <<  <<"W">>,       NoStr,         <<"A">> >> }

Scores == {NoScore, 1, 2}

RawRecord(i, has_id, ident, score) ==
    [element_id |-> IF has_id THEN RecordIds[i] ELSE NoId,
     element_type |-> ident[1], name |-> ident[2], element_name |-> ident[3],
     similarity_score |-> score,
     has_group |-> FALSE, element_ids_group |-> <<>>]

\* the choices for the i-th record; only the first record may lack an id
RecordChoices(i) == (IF i = 1 THEN BOOLEAN ELSE {TRUE}) \X RawIdentities \X Scores

InitDedupe ==
    /\ dedupePc = "call"
    /\ dedupeFn = "none"
    /\ \E n \in 0..MaxRecords :
          \E c \in [1..n -> BOOLEAN \X RawIdentities \X Scores] :
             /\ \A i \in 1..n : c[i] \in RecordChoices(i)
             /\ dedupeIn = [i \in 1..n |-> RawRecord(i, c[i][1], c[i][2], c[i][3])]
    /\ dedupeOut1 = <<>>
    /\ dedupeOut2 = <<>>
    /\ IdleMerge /\ IdleProgress /\ IdleVector /\ IdleAnalysis /\ IdleLater

DedupeElements ==
    /\ dedupePc = "call"
    /\ dedupeFn' = "dedupe_elements"
    /\ dedupeOut1' = dedupe_elements(dedupeIn)
    /\ dedupePc' = "once"
    /\ UNCHANGED <<dedupeIn, dedupeOut2, otherThanDedupe>>

DedupeIfcElements ==
    /\ dedupePc = "call"
    /\ dedupeFn' = "dedupe_ifc_elements"
    /\ dedupeOut1' = dedupe_ifc_elements(dedupeIn)
    /\ dedupePc' = "once"
    /\ UNCHANGED <<dedupeIn, dedupeOut2, otherThanDedupe>>

\* the groups are fed back in their native shape (with element_ids_group)
DedupeElementsAgain ==
    /\ dedupePc = "once"
    /\ dedupeFn = "dedupe_elements"
    /\ dedupeOut2' = dedupe_elements(dedupeOut1)
    /\ dedupePc' = "twice"
    /\ UNCHANGED <<dedupeFn, dedupeIn, dedupeOut1, otherThanDedupe>>

DedupeIfcElementsAgain ==
    /\ dedupePc = "once"
    /\ dedupeFn = "dedupe_ifc_elements"
    /\ dedupeOut2' = dedupe_ifc_elements(dedupeOut1)
    /\ dedupePc' = "twice"
    /\ UNCHANGED <<dedupeFn, dedupeIn, dedupeOut1, otherThanDedupe>>

\* IFCProcessorService.process_ifc_file on the extracted elements: the
\* catalog that the upload route stores ([] stands for the ValueError)
process_ifc_file(elements) == elements

\* RAGSearchService.fetch_rag_context: one context element per hit, built
\* from element_id, element_type, element_name or "" and the score
fetch_rag_context(hits) ==
    [i \in 1..Len(hits) |->
        [hits[i] EXCEPT !.name = NoStr, !.element_name = OrEmpty(@)]]

\* catalog ingestion: the elements are serialised and stored
ProcessIfcFile ==
    /\ dedupePc = "call"
    /\ dedupeFn' = "process_ifc_file"
    /\ dedupeOut1' = process_ifc_file(dedupeIn)
    /\ dedupePc' = IF dedupeIn = <<>> THEN "raised" ELSE "stored"
    /\ UNCHANGED <<dedupeIn, dedupeOut2, otherThanDedupe>>

\* scripts/test_rag.py retrieve_relevant_elements: the context elements of
\* fetch_rag_context, deduplicated
RetrieveRelevantElements ==
    /\ dedupePc = "call"
    /\ dedupeFn' = "dedupe_ifc_elements"
    /\ dedupeOut1' = dedupe_ifc_elements(fetch_rag_context(dedupeIn))
    /\ dedupePc' = "retrieved"
    /\ UNCHANGED <<dedupeIn, dedupeOut2, otherThanDedupe>>

NextDedupe ==
    \/ DedupeElements \/ DedupeIfcElements
    \/ DedupeElementsAgain \/ DedupeIfcElementsAgain
    \/ ProcessIfcFile \/ RetrieveRelevantElements

SpecDedupe == InitDedupe /\ [][NextDedupe]_vars

\* The normalized identity of a record, as a (type, name) pair; the script's
\* deduplicator reads element_name when name is missing
Identity(fn, elem) ==
    LET raw_name == IF fn = "dedupe_ifc_elements" /\ OrEmpty(elem.name) = <<>>
                    THEN elem.element_name ELSE elem.name
    IN  << LowerStr(StripStr(OrEmpty(elem.element_type))),
           LowerStr(StripStr(OrEmpty(raw_name))) >>

InputIds == {dedupeIn[i].element_id : i \in 1..Len(dedupeIn)} \ {NoId}

GroupsHolding(out, id) == {g \in 1..Len(out) : id \in Range(out[g].element_ids_group)}

C6_DedupeIdempotent ==
    dedupePc = "twice" =>
        /\ Len(dedupeOut2) = Len(dedupeOut1)
        /\ \A g \in 1..Len(dedupeOut1) :
              /\ dedupeOut2[g].element_id = dedupeOut1[g].element_id
              /\ Range(dedupeOut2[g].element_ids_group) = Range(dedupeOut1[g].element_ids_group)
              /\ Len(dedupeOut2[g].element_ids_group) = Len(dedupeOut1[g].element_ids_group)

MembersOf(grp) ==
    {i \in 1..Len(dedupeIn) : Identity(dedupeFn, dedupeIn[i]) = Identity(dedupeFn, grp)}

\* C7 (as claimed): when records of a group carry a similarity score, the
\* group's representative has the maximum score of the group's scored
\* records, and its element_ids_group holds the id of every record of the
\* group.
C7_BestScoreRepresentative ==
    dedupePc = "once" =>
        \A g \in 1..Len(dedupeOut1) :
           LET members == MembersOf(dedupeOut1[g])
               scored == {i \in members : dedupeIn[i].similarity_score # NoScore}
           IN  /\ scored # {} =>
                     /\ dedupeOut1[g].similarity_score # NoScore
                     /\ \A i \in scored :
                           dedupeOut1[g].similarity_score >= dedupeIn[i].similarity_score
               /\ \A i \in members :
                     dedupeIn[i].element_id # NoId =>
                        dedupeIn[i].element_id \in Range(dedupeOut1[g].element_ids_group)

----------------------------------------------------------------------------
(* Vector retrieval: RAGSearchService.find_similar_elements_vector and     *)
(* BIMAnalysisService._find_similar_elements_vector                        *)

RECURSIVE SeqMax(_)
SeqMax(xs) ==
    IF Len(xs) = 1 THEN xs[1]
    ELSE LET m == SeqMax(Tail(xs)) IN IF Head(xs) > m THEN Head(xs) ELSE m

RECURSIVE SeqMin(_)
SeqMin(xs) ==
    IF Len(xs) = 1 THEN xs[1]
    ELSE LET m == SeqMin(Tail(xs)) IN IF Head(xs) < m THEN Head(xs) ELSE m

\* if target_ids and hit.element_id not in target_ids: continue
FilteredOut(element_id, target_ids) ==
    /\ target_ids # NoTargetIds
    /\ target_ids # {}
    /\ element_id \notin target_ids

\* DetectedElement(...).model_dump() for a vector hit.  The confidence field
\* is round(confidence, 3); conf_num / conf_den keep the exact value the
\* status was decided on.
VectorDetection(element_id, conf_num, conf_den, status) ==
    [element_id |-> element_id,
     confidence |-> RoundHalfEven(conf_num * 1000, conf_den),
     status |-> status, source |-> "VECTOR",
     conf_num |-> conf_num, conf_den |-> conf_den]

\* rag_search_service.py lines 116-121, on the exact confidence num/den
rag_status(num, den) ==
    IF num * 10 > 7 * den THEN "COMPLETED"
    ELSE IF num * 10 > 4 * den THEN "IN_PROGRESS"
    ELSE "NOT_STARTED"

\* rag_search_service.py lines 100-109: the confidence of one hit as an
\* exact fraction <<num, den>>; scores are in thousandths
rag_confidence_by_max(raw_score, min_score, max_score) ==
    IF max_score - min_score > 10 /\ max_score > 0
    THEN <<IF raw_score < 0 THEN 0 ELSE raw_score, max_score>>
    ELSE <<IF raw_score < 0 THEN 500 ELSE IF raw_score > 1000 THEN 1000 ELSE raw_score, 1000>>

rag_confidence(raw_score, min_score, max_score) ==
    LET score_range == max_score - min_score
        c == IF score_range > 10
             THEN <<raw_score - min_score, score_range>>
             ELSE <<IF raw_score >= 0
                    THEN (IF raw_score < 1000 THEN raw_score ELSE 1000)
                    ELSE 500, 1000>>
    IN  \* confidence = max(0.0, min(1.0, confidence))
        IF c[1] < 0 THEN <<0, c[2]>>
        ELSE IF c[1] > c[2] THEN <<c[2], c[2]>>
        ELSE c

RECURSIVE rag_detect(_, _, _, _)
rag_detect(hits, target_ids, min_score, max_score) ==
    IF hits = <<>> THEN <<>>
    ELSE LET hit == Head(hits)
             c == rag_confidence(hit.score, min_score, max_score)
             rest == rag_detect(Tail(hits), target_ids, min_score, max_score)
         IN  IF FilteredOut(hit.element_id, target_ids) THEN rest
             ELSE <<VectorDetection(hit.element_id, c[1], c[2], rag_status(c[1], c[2]))>>
                  \o rest

\* RAGSearchService.find_similar_elements_vector
find_similar_elements_vector(hits, target_ids, index_up) ==
    IF ~index_up THEN <<>>                      \* except Exception: return []
    ELSE IF hits = <<>> THEN <<>>
    ELSE LET scores == [i \in 1..Len(hits) |-> hits[i].score]
         IN  rag_detect(hits, target_ids, SeqMin(scores), SeqMax(scores))

\* bim_analysis.py lines 356-362: the raw score is the confidence
bim_status(confidence) ==
    IF confidence > 800 THEN "COMPLETED"
    ELSE IF confidence > 500 THEN "IN_PROGRESS"
    ELSE "NOT_STARTED"

RECURSIVE bim_detect(_, _)
bim_detect(hits, target_ids) ==
    IF hits = <<>> THEN <<>>
    ELSE LET hit == Head(hits)
             rest == bim_detect(Tail(hits), target_ids)
         IN  IF FilteredOut(hit.element_id, target_ids) THEN rest
             ELSE <<VectorDetection(hit.element_id, hit.score, 1000, bim_status(hit.score))>>
                  \o rest

\* The DetectedElement schema is not part of the sources: whether it rejects
\* a confidence outside [0,1] is an input of the model (schema_rejects).
SchemaRaises(detected, schema_rejects) ==
    /\ schema_rejects
    /\ \E i \in 1..Len(detected) : detected[i].confidence < 0 \/ detected[i].confidence > 1000

\* BIMAnalysisService._find_similar_elements_vector
bim_find_similar_elements_vector(hits, target_ids, index_up, schema_rejects) ==
    IF ~index_up THEN <<>>                      \* except Exception: return []
    ELSE LET detected == bim_detect(hits, target_ids)
         IN  IF SchemaRaises(detected, schema_rejects) THEN <<>> ELSE detected

----------------------------------------------------------------------------
(* Specification SpecVector: both retrieval functions applied to arbitrary *)
(* index answers                                                           *)

HitIds == <<"e1", "e2", "e3", "e4", "e5">>

\* raw index scores, in thousandths
RawScores == {-200, 120, 400, 405, 450, 750, 910, 1500}

TargetChoices == {NoTargetIds, {}, {"e1", "e3"}}

InitVector ==
    /\ vecPc = "call"
    /\ \E n \in 0..MaxHits :
          \E sc \in [1..n -> RawScores] :
             \E t \in TargetChoices, up \in BOOLEAN, rej \in BOOLEAN :
                vecIn = [hits |-> [i \in 1..n |-> [element_id |-> HitIds[i], score |-> sc[i]]],
                         target_ids |-> t, index_up |-> up, schema_rejects |-> rej]
    /\ vecOut = [fn |-> "none", detected |-> <<>>]
    /\ IdleMerge /\ IdleProgress /\ IdleDedupe /\ IdleAnalysis /\ IdleLater

RagFindSimilar ==
    /\ vecPc = "call"
    /\ vecOut' = [fn |-> "find_similar_elements_vector",
                  detected |-> find_similar_elements_vector(
                                   vecIn.hits, vecIn.target_ids, vecIn.index_up)]
    /\ vecPc' = "done"
    /\ UNCHANGED <<vecIn, otherThanVector>>

BimFindSimilar ==
    /\ vecPc = "call"
    /\ vecOut' = [fn |-> "_find_similar_elements_vector",
                  detected |-> bim_find_similar_elements_vector(
                                   vecIn.hits, vecIn.target_ids, vecIn.index_up,
                                   vecIn.schema_rejects)]
    /\ vecPc' = "done"
    /\ UNCHANGED <<vecIn, otherThanVector>>

NextVector == RagFindSimilar \/ BimFindSimilar

SpecVector == InitVector /\ [][NextVector]_vars

HitOf(d) == CHOOSE i \in 1..Len(vecIn.hits) : vecIn.hits[i].element_id = d.element_id

HitScores == {vecIn.hits[i].score : i \in 1..Len(vecIn.hits)}

MaxOf(S) == CHOOSE x \in S : \A y \in S : y <= x
MinOf(S) == CHOOSE x \in S : \A y \in S : x <= y

\* C8 (as claimed): every hit's confidence is in [0,1]; it is
\* (raw - min)/(max - min) when max - min > 0.01, else the raw score clamped
\* to [0,1].
C8_NormalizedConfidence ==
    vecPc = "done" =>
        \A k \in 1..Len(vecOut.detected) :
           LET d == vecOut.detected[k]
               raw == vecIn.hits[HitOf(d)].score
               lo == MinOf(HitScores)
               hi == MaxOf(HitScores)
           IN  /\ d.confidence >= 0 /\ d.confidence <= 1000
               /\ hi - lo > 10 => d.confidence = RoundHalfEven((raw - lo) * 1000, hi - lo)
               /\ hi - lo <= 10 =>
                     d.confidence = (IF raw < 0 THEN 0 ELSE IF raw > 1000 THEN 1000 ELSE raw)

ScenarioB ==
    /\ vecPc = "done"
    /\ vecOut.fn = "find_similar_elements_vector"
    /\ vecIn.index_up
    /\ [i \in 1..Len(vecIn.hits) |-> vecIn.hits[i].score] = <<910, 400, 120>>

DetectionOfHit(i) ==
    {vecOut.detected[k] : k \in {j \in 1..Len(vecOut.detected) :
                                     vecOut.detected[j].element_id = vecIn.hits[i].element_id}}

\* C9 (as claimed): raw scores [0.91, 0.40, 0.12] give confidences
\* [1.0, ~0.45, 0.0] and statuses [COMPLETED, IN_PROGRESS or NOT_STARTED,
\* NOT_STARTED].
C9_ScenarioB_AsClaimed ==
    ScenarioB =>
        /\ \A d \in DetectionOfHit(1) : d.confidence = 1000 /\ d.status = "COMPLETED"
        /\ \A d \in DetectionOfHit(2) :
              /\ d.confidence >= 445 /\ d.confidence <= 455
              /\ d.status \in {"IN_PROGRESS", "NOT_STARTED"}
        /\ \A d \in DetectionOfHit(3) : d.confidence = 0 /\ d.status = "NOT_STARTED"

\* C9 (amended): raw scores [0.91, 0.40, 0.12] give confidences
\* [1.0, 0.354, 0.0] (min-max over the spread 0.79) and statuses
\* [COMPLETED, NOT_STARTED, NOT_STARTED].
C9_ScenarioB ==
    ScenarioB =>
        /\ \A d \in DetectionOfHit(1) : d.confidence = 1000 /\ d.status = "COMPLETED"
        /\ \A d \in DetectionOfHit(2) : d.confidence = 354 /\ d.status = "NOT_STARTED"
        /\ \A d \in DetectionOfHit(3) : d.confidence = 0 /\ d.status = "NOT_STARTED"
        /\ \A i \in 1..3 :
              ~FilteredOut(vecIn.hits[i].element_id, vecIn.target_ids)
                 => DetectionOfHit(i) # {}

\* C9 witness: the three hits of scenario B were all returned
C9_Witness ==
    /\ ScenarioB
    /\ Len(vecOut.detected) = 3

\* C10 (as claimed): in every vector retrieval path a detection is COMPLETED
\* when its confidence > 0.7, IN_PROGRESS when 0.4 < confidence <= 0.7 and
\* NOT_STARTED when confidence <= 0.4.
C10_StatusThresholds ==
    vecPc = "done" =>
        \A k \in 1..Len(vecOut.detected) :
           LET d == vecOut.detected[k]
           IN  d.status = (IF d.conf_num * 10 > 7 * d.conf_den THEN "COMPLETED"
                           ELSE IF d.conf_num * 10 > 4 * d.conf_den THEN "IN_PROGRESS"
                           ELSE "NOT_STARTED")

----------------------------------------------------------------------------
(* Keyword / fuzzy matcher: BIMAnalysisService._compare_with_bim_model     *)

\* settings.fuzzy_match_threshold
fuzzy_match_threshold == 80

\* The keys of element_keywords that the model's element types contain
TypeKeys == {"wall", "roof"}

\* type_key in element["element_type"].lower()
TypeKeyIn(type_key, element_type) ==
    \/ type_key = "wall" /\ element_type = "Wall"
    \/ type_key = "roof" /\ element_type = "Roof"

\* A catalog element whose name is None
NoName == "None"

\* process.extractOne(element_name or element_type, keywords,
\* scorer=fuzz.partial_ratio)[1]: a name that spells its type scores 100
NameRatio(name) == IF name = "X-17" THEN 40 ELSE 100

\* A generated description is known by what the matcher reads in it: for
\* each type key the fuzz.partial_ratio of its keywords against the text
\* (100 when a keyword occurs in the text as a substring), and the status
\* cues that occur.
Mentions == {100, 95, 85, 30}
Cues == {"completed", "progress", "missing"}
Descriptions == [mention : [TypeKeys -> Mentions], cues : SUBSET Cues]

determine_element_status_missing_first(description) ==
    IF "completed" \in description.cues THEN "COMPLETED"
    ELSE IF "missing" \in description.cues THEN "NOT_STARTED"
    ELSE "IN_PROGRESS"

\* BIMAnalysisService._determine_element_status
determine_element_status(description) ==
    IF "completed" \in description.cues THEN "COMPLETED"
    ELSE IF "progress" \in description.cues THEN "IN_PROGRESS"
    ELSE IF "missing" \in description.cues THEN "NOT_STARTED"
    ELSE "IN_PROGRESS"

KeywordDetection(element, confidence, status) ==
    [element_id |-> element.element_id, confidence |-> confidence,
     status |-> status, source |-> "KEYWORD",
     conf_num |-> confidence, conf_den |-> 1000]

Min(a, b) == IF a < b THEN a ELSE b

MatchElementUncapped(element, description) ==
    LET keys == {k \in TypeKeys : TypeKeyIn(k, element.element_type)}
        exact == \E k \in keys : description.mention[k] = 100
        fuzzy == {description.mention[k] : k \in
                     {k \in keys : /\ NameRatio(element.name) >= fuzzy_match_threshold
                                   /\ description.mention[k] # 100
                                   /\ description.mention[k] >= fuzzy_match_threshold}}
    IN  IF exact THEN <<TRUE, 850>>
        ELSE IF fuzzy # {}
        THEN <<TRUE, (CHOOSE m \in fuzzy : TRUE) * 10>>
        ELSE <<FALSE, 0>>

\* lines 203-236 for one element: <<is_detected, confidence>>
MatchElement(element, description) ==
    LET keys == {k \in TypeKeys : TypeKeyIn(k, element.element_type)}
        exact == \E k \in keys : description.mention[k] = 100
        fuzzy == {description.mention[k] : k \in
                     {k \in keys : /\ NameRatio(element.name) >= fuzzy_match_threshold
                                   /\ description.mention[k] # 100
                                   /\ description.mention[k] >= fuzzy_match_threshold}}
    IN  IF exact THEN <<TRUE, 850>>
        ELSE IF fuzzy # {}
        THEN <<TRUE, Min((CHOOSE m \in fuzzy : TRUE) * 10, 900)>>
        ELSE <<FALSE, 0>>

RECURSIVE MatchElements(_, _, _)
MatchElements(elements, description, target_ids) ==
    IF elements = <<>> THEN <<>>
    ELSE LET element == Head(elements)
             m == MatchElement(element, description)
             rest == MatchElements(Tail(elements), description, target_ids)
         IN  IF FilteredOut(element.element_id, target_ids) THEN rest
             ELSE IF m[1]
             THEN <<KeywordDetection(element, m[2], determine_element_status(description))>>
                  \o rest
             ELSE rest

\* element.get("name", "").lower() raises on a None name, for the first
\* element the loop reaches; the except clause re-raises
CompareRaises(elements, target_ids) ==
    \E i \in 1..Len(elements) :
       /\ ~FilteredOut(elements[i].element_id, target_ids)
       /\ elements[i].name = NoName

compare_with_bim_model(description, elements, target_ids) ==
    IF CompareRaises(elements, target_ids)
    THEN [raised |-> TRUE, detected_elements |-> <<>>]
    ELSE [raised |-> FALSE,
          detected_elements |-> MatchElements(elements, description, target_ids)]

----------------------------------------------------------------------------
(* Alerts: BIMAnalysisService._identify_alerts                             *)

\* the characters of the element types and names of the model's catalogs;
\* a None name prints as "None" in an f-string
Spell(str) ==
    CASE str = "Wall" -> <<"W", "a", "l", "l">>
      [] str = "Roof" -> <<"R", "o", "o", "f">>
      [] str = "Basic" -> <<"B", "a", "s", "i", "c">>
      [] str = "X-17" -> <<"X", "-", "1", "7">>
      [] str = "None" -> <<"N", "o", "n", "e">>

\* element.get(key): None when the record has no such key
GetDeviation(element) ==
    IF "deviation" \in DOMAIN element THEN element.deviation ELSE NoStr

\* truth value of a str | None
Truthy(str) == str # NoStr /\ str # <<>>

\* f"{element['element_type']} ({element.get('name', 'sem nome')}) não identificado na imagem"
MissingText(element) ==
    Spell(element.element_type) \o <<" ", "(">> \o Spell(element.name) \o <<")", " ">>
        \o <<"n", "ã", "o", " ", "i", "d", "e", "n", "t", "i", "f", "i", "c", "a", "d", "o", " ", "n", "a", " ", "i", "m", "a", "g", "e", "m">>

\* f"Desvio em {element['element_type']}: {element['deviation']}"
DeviationText(element) ==
    <<"D", "e", "s", "v", "i", "o", " ", "e", "m", " ">>
        \o Spell(element.element_type) \o <<":", " ">> \o element.deviation

\* first loop: one alert for each catalog element from position i on whose
\* id is not detected; kind and at record which loop and which list
\* position produced the text
RECURSIVE MissingAlerts(_, _, _)
MissingAlerts(all_elements, detected_ids, i) ==
    IF i > Len(all_elements) THEN <<>>
    ELSE (IF all_elements[i].element_id \notin detected_ids
          THEN <<[kind |-> "missing", at |-> i, text |-> MissingText(all_elements[i])]>>
          ELSE <<>>)
         \o MissingAlerts(all_elements, detected_ids, i + 1)

\* second loop: one alert for each detected element from position j on that
\* carries a deviation note
RECURSIVE DeviationAlerts(_, _)
DeviationAlerts(detected_elements, j) ==
    IF j > Len(detected_elements) THEN <<>>
    ELSE (IF Truthy(GetDeviation(detected_elements[j]))
          THEN <<[kind |-> "deviation", at |-> j, text |-> DeviationText(detected_elements[j])]>>
          ELSE <<>>)
         \o DeviationAlerts(detected_elements, j + 1)

identify_alerts_missing_only(detected_elements, all_elements) ==
    MissingAlerts(all_elements, IdsOf(detected_elements), 1)

\* BIMAnalysisService._identify_alerts and ProgressCalculator.identify_alerts
\* (the same body)
identify_alerts(detected_elements, all_elements) ==
    MissingAlerts(all_elements, IdsOf(detected_elements), 1)
        \o DeviationAlerts(detected_elements, 1)

----------------------------------------------------------------------------
(* BIMAnalysisService.analyze_construction_image, one action per await.    *)
(* Description generation and embedding are calls to the injected          *)
(* collaborators (vlm_service, embedding_service): each returns or raises. *)

\* lines 338-380: the whole retrieval is inside try / except Exception
find_vector_step_propagating(hits, target_ids, index_up, schema_rejects) ==
    [raised |-> ~index_up,
     matches |-> bim_find_similar_elements_vector(hits, target_ids, index_up, schema_rejects)]

find_vector_step(hits, target_ids, index_up, schema_rejects) ==
    [raised |-> FALSE,
     matches |-> bim_find_similar_elements_vector(hits, target_ids, index_up, schema_rejects)]

\* the catalog: element i of a project is a Wall or a Roof by position
CatalogTypes == <<"Wall", "Roof", "Wall", "Roof">>
CatalogIds == <<"e1", "e2", "e3", "e4">>
Names == {"Basic", "X-17", NoName}

\* ids the index may return: one of the catalog, one the catalog lacks
IndexedIds == {"e1", "e9"}
IndexedScores == {450, 910}

InitAnalysis ==
    /\ anPc = "start"
    /\ \E n \in 0..MaxCatalog :
          \E nm \in [1..n -> Names] :
             project_data = [elements |->
                 [i \in 1..n |-> [element_id |-> CatalogIds[i],
                                  element_type |-> CatalogTypes[i], name |-> nm[i]]]]
    /\ \E n \in 0..MaxIndexed :
          \E h \in [1..n -> [element_id : IndexedIds, score : IndexedScores]] :
             index = [hits |-> h, schema_rejects |-> FALSE]
    /\ target_element_ids = NoTargetIds
    /\ an = FreshAnalysis
    /\ IdleMerge /\ IdleProgress /\ IdleDedupe /\ IdleVector /\ IdleLater

\* 1. description = await self._generate_image_description(...)
GenerateDescription ==
    /\ anPc = "start"
    /\ \/ \E d \in Descriptions :
             /\ an' = [an EXCEPT !.description = d]
             /\ anPc' = "described"
       \/ /\ an' = [an EXCEPT !.failed_at = "description"]
          /\ anPc' = "raised"
    /\ UNCHANGED <<project_data, index, target_element_ids, otherThanAnalysis>>

\* EmbeddingService.generate_text_embedding / generate_image_embedding: the
\* normalised vector, or [] when the model raises (except Exception: return [])
generate_text_embedding(model_ok) == IF model_ok THEN "vector" ELSE "empty"

\* 2. description_embedding = await self.embedding_service.generate_embedding(...)
\* EmbeddingService has no generate_embedding: the call raises AttributeError
\* unless the attribute is bound to generate_text_embedding (resolves)
GenerateEmbedding ==
    /\ anPc = "described"
    /\ \E resolves \in BOOLEAN, model_ok \in BOOLEAN :
          IF resolves
          THEN /\ an' = [an EXCEPT !.description_embedding = generate_text_embedding(model_ok),
                                   !.embedding_model_ok = model_ok]
               /\ anPc' = "embedded"
          ELSE /\ an' = [an EXCEPT !.failed_at = "embedding"]
               /\ anPc' = "raised"
    /\ UNCHANGED <<project_data, index, target_element_ids, otherThanAnalysis>>

\* 3. vector_matches = await self._find_similar_elements_vector(...); the
\* index answers or raises, whatever query vector it is given
FindSimilarVector ==
    /\ anPc = "embedded"
    /\ \E up \in BOOLEAN :
          LET r == find_vector_step(index.hits, target_element_ids, up, index.schema_rejects)
          IN  IF r.raised
              THEN /\ an' = [an EXCEPT !.index_up = up, !.failed_at = "vector"]
                   /\ anPc' = "raised"
              ELSE /\ an' = [an EXCEPT !.index_up = up, !.vector_matches = r.matches]
                   /\ anPc' = "searched"
    /\ UNCHANGED <<project_data, index, target_element_ids, otherThanAnalysis>>

\* 4-7. keyword matching, merge, progress metrics, alerts, return
CompareAndFinish ==
    /\ anPc = "searched"
    /\ LET k == compare_with_bim_model(an.description, project_data.elements,
                                        target_element_ids)
           detected == merge_detection_results(an.vector_matches, k.detected_elements)
       IN  IF k.raised
           THEN /\ an' = [an EXCEPT !.failed_at = "keyword"]
                /\ anPc' = "raised"
           ELSE /\ an' = [an EXCEPT
                            !.keyword_matches = k.detected_elements,
                            !.detected_elements = detected,
                            !.overall_progress =
                                bim_calculate_progress_metrics(
                                    detected, Len(project_data.elements)).overall_progress,
                            !.alerts = identify_alerts(detected, project_data.elements)]
                /\ anPc' = "done"
    /\ UNCHANGED <<project_data, index, target_element_ids, otherThanAnalysis>>

Next ==
    \/ GenerateDescription
    \/ GenerateEmbedding
    \/ FindSimilarVector
    \/ CompareAndFinish

Init == InitAnalysis

Spec == Init /\ [][Next]_vars

C11_MatcherFailureSkipsElement ==
    (/\ anPc \in {"done", "raised"}
     /\ an.failed_at \notin {"description", "embedding", "vector"}
     /\ \E i \in 1..Len(project_data.elements) : project_data.elements[i].name = NoName)
    =>
        /\ anPc = "done"
        /\ \A i \in 1..Len(project_data.elements) :
              LET element == project_data.elements[i]
              IN  (element.name # NoName /\ MatchElement(element, an.description)[1])
                     => element.element_id \in IdsOf(an.keyword_matches)

----------------------------------------------------------------------------
(* Alert classification and storage: _save_alerts (routes/bim.py)          *)

MaxAlertCatalog == 2    \* most catalog elements given to identify_alerts
MaxAlertDetected == 2   \* most detected elements given to identify_alerts

\* word in text_lower
Contains(text, word) ==
    \E i \in 1..(Len(text) - Len(word) + 1) : SubSeq(text, i, i + Len(word) - 1) = word

\* any(word in text_lower for word in words)
AnyIn(words, text) == \E word \in words : Contains(text, word)

\* the keyword lists of the two if / elif chains
AlertWords ==
    [missing |->
        {<<"m", "i", "s", "s", "i", "n", "g">>, <<"f", "a", "l", "t", "a", "n", "d", "o">>, <<"a", "u", "s", "e", "n", "t", "e">>, <<"n", "ã", "o", " ", "d", "e", "t", "e", "c", "t", "a", "d", "o">>},
     delay |->
        {<<"d", "e", "l", "a", "y">>, <<"a", "t", "r", "a", "s", "o">>, <<"a", "t", "r", "a", "s", "a", "d", "o">>},
     quality |->
        {<<"q", "u", "a", "l", "i", "t", "y">>, <<"q", "u", "a", "l", "i", "d", "a", "d", "e">>, <<"d", "e", "f", "e", "i", "t", "o">>},
     safety |->
        {<<"s", "a", "f", "e", "t", "y">>, <<"s", "e", "g", "u", "r", "a", "n", "ç", "a">>, <<"r", "i", "s", "c", "o">>},
     critical |->
        {<<"c", "r", "i", "t", "i", "c", "a", "l">>, <<"c", "r", "í", "t", "i", "c", "o">>, <<"u", "r", "g", "e", "n", "t", "e">>, <<"g", "r", "a", "v", "e">>},
     high |->
        {<<"h", "i", "g", "h">>, <<"a", "l", "t", "o">>, <<"i", "m", "p", "o", "r", "t", "a", "n", "t", "e">>},
     low |->
        {<<"l", "o", "w">>, <<"b", "a", "i", "x", "o">>, <<"m", "e", "n", "o", "r">>}]

\* the if / elif chain over the type keywords
alert_type_of(text_lower) ==
    IF AnyIn(AlertWords.missing, text_lower) THEN "MISSING_ELEMENT"
    ELSE IF AnyIn(AlertWords.delay, text_lower) THEN "DELAY"
    ELSE IF AnyIn(AlertWords.quality, text_lower) THEN "QUALITY_ISSUE"
    ELSE IF AnyIn(AlertWords.safety, text_lower) THEN "SAFETY_CONCERN"
    ELSE "DEVIATION"

\* the severity set by the type chain, then overwritten by the if / elif
\* chain over the severity keywords
severity_of(text_lower) ==
    IF AnyIn(AlertWords.critical, text_lower) THEN "CRITICAL"
    ELSE IF AnyIn(AlertWords.high, text_lower) THEN "HIGH"
    ELSE IF AnyIn(AlertWords.low, text_lower) THEN "LOW"
    ELSE IF alert_type_of(text_lower) = "SAFETY_CONCERN" THEN "HIGH"
    ELSE "MEDIUM"

\* the AlertModel row built for one alert text; kind and at are carried
\* over from the alert to tell which alert the row stores
AlertRow(alert) ==
    [alert_type |-> alert_type_of(LowerStr(alert.text)),
     severity |-> severity_of(LowerStr(alert.text)),
     description |-> alert.text, kind |-> alert.kind, at |-> alert.at]

\* _save_alerts: one row per alert text, in order; an alert whose save()
\* raises is logged and skipped
RECURSIVE save_alerts(_, _, _)
save_alerts(alerts, save_raises, i) ==
    IF i > Len(alerts) THEN <<>>
    ELSE (IF i \in save_raises THEN <<>> ELSE <<AlertRow(alerts[i])>>)
         \o save_alerts(alerts, save_raises, i + 1)

\* deviation notes: none, empty, and free text with and without keywords
DeviationNotes ==
    {NoStr, <<>>, <<"f", "o", "r", "a", " ", "d", "e", " ", "p", "r", "u", "m", "o">>, <<"R", "i", "s", "c", "o", " ", "b", "a", "i", "x", "o">>,
     <<"a", "u", "s", "e", "n", "t", "e">>}

AlertDetectedIds == {"e1", "e9"}

InitAlerts ==
    /\ alertPc = "call"
    /\ \E n \in 0..MaxAlertCatalog :
          \E nm \in [1..n -> Names] :
             \E m \in 0..MaxAlertDetected :
                \E d \in [1..m -> AlertDetectedIds \X DeviationNotes] :
                   alertIn =
                     [detected_elements |->
                         [j \in 1..m |-> [element_id |-> d[j][1], element_type |-> "Wall",
                                          deviation |-> d[j][2]]],
                      project_data |-> [elements |->
                         [i \in 1..n |-> [element_id |-> CatalogIds[i],
                                          element_type |-> CatalogTypes[i], name |-> nm[i]]]]]
    /\ alertOut = [fn |-> "none", alerts |-> <<>>, stored |-> <<>>]
    /\ IdleEngine /\ IdleCompare /\ IdleTimeline /\ IdleBatch /\ IdleService

\* BIMAnalysisService._identify_alerts
BimIdentifyAlerts ==
    /\ alertPc = "call"
    /\ alertPc' = "identified"
    /\ alertOut' = [alertOut EXCEPT
                      !.fn = "_identify_alerts",
                      !.alerts = identify_alerts(alertIn.detected_elements,
                                                 alertIn.project_data.elements)]
    /\ UNCHANGED <<alertIn, otherThanAlerts>>

\* ProgressCalculator.identify_alerts
IdentifyAlerts ==
    /\ alertPc = "call"
    /\ alertPc' = "identified"
    /\ alertOut' = [alertOut EXCEPT
                      !.fn = "identify_alerts",
                      !.alerts = identify_alerts(alertIn.detected_elements,
                                                 alertIn.project_data.elements)]
    /\ UNCHANGED <<alertIn, otherThanAlerts>>

\* if result.alerts: await _save_alerts(...)
SaveAlerts ==
    /\ alertPc = "identified"
    /\ alertOut.alerts # <<>>
    /\ alertPc' = "saved"
    /\ \E save_raises \in SUBSET (1..Len(alertOut.alerts)) :
          alertOut' = [alertOut EXCEPT
                         !.stored = save_alerts(alertOut.alerts, save_raises, 1)]
    /\ UNCHANGED <<alertIn, otherThanAlerts>>

NextAlerts ==
    \/ BimIdentifyAlerts
    \/ IdentifyAlerts
    \/ SaveAlerts

SpecAlerts == InitAlerts /\ [][NextAlerts]_vars

StoredOf(kind) ==
    {k \in 1..Len(alertOut.stored) : alertOut.stored[k].kind = kind}

\* C12 (as claimed): every stored alert that was emitted for a catalog
\* element missing from the detections has alert type MISSING_ELEMENT.
C12_MissingAlertsTyped ==
    alertPc = "saved" =>
        \A k \in StoredOf("missing") : alertOut.stored[k].alert_type = "MISSING_ELEMENT"

AlertsOf(kind, at) ==
    {k \in 1..Len(alertOut.alerts) :
        alertOut.alerts[k].kind = kind /\ alertOut.alerts[k].at = at}

Undetected ==
    {i \in 1..Len(alertIn.project_data.elements) :
        alertIn.project_data.elements[i].element_id \notin
            {alertIn.detected_elements[j].element_id : j \in 1..Len(alertIn.detected_elements)}}

Deviating ==
    {j \in 1..Len(alertIn.detected_elements) :
        alertIn.detected_elements[j].deviation \notin {NoStr, <<>>}}

\* C13: identify_alerts emits exactly one missing-element alert for each
\* catalog element whose id is not detected and none for a detected one,
\* exactly one deviation alert for each detected element with a non-empty
\* deviation note and none for the others, and nothing else; so an empty
\* catalog without deviations gives the empty list.
C13_AlertsExact ==
    alertPc \in {"identified", "saved"} =>
        /\ \A i \in 1..Len(alertIn.project_data.elements) :
              Cardinality(AlertsOf("missing", i)) = (IF i \in Undetected THEN 1 ELSE 0)
        /\ \A j \in 1..Len(alertIn.detected_elements) :
              Cardinality(AlertsOf("deviation", j)) = (IF j \in Deviating THEN 1 ELSE 0)
        /\ Len(alertOut.alerts) = Cardinality(Undetected) + Cardinality(Deviating)
        /\ \A k \in 1..Len(alertOut.alerts) :
              LET alert == alertOut.alerts[k]
              IN  IF alert.kind = "missing"
                  THEN alert.text = MissingText(alertIn.project_data.elements[alert.at])
                  ELSE alert.text = DeviationText(alertIn.detected_elements[alert.at])
        /\ (alertIn.project_data.elements = <<>> /\ Deviating = {}) => alertOut.alerts = <<>>

\* C13 witness: a catalog with a detected and an undetected element and a
\* detected element with a deviation note gave one alert of each kind
C13_Witness ==
    /\ alertPc = "identified"
    /\ Len(alertIn.project_data.elements) = 2
    /\ Cardinality(Undetected) = 1
    /\ Cardinality(Deviating) = 1
    /\ Len(alertIn.detected_elements) = 2
    /\ Len(alertOut.alerts) = 2

AllWords == UNION {AlertWords[k] : k \in DOMAIN AlertWords}

\* C14 (as claimed): a stored alert whose text matches no keyword has type
\* DEVIATION and severity MEDIUM, and a stored alert of type SAFETY_CONCERN
\* has severity HIGH or CRITICAL whatever severity keywords its text holds.
C14_SafetyAtLeastHigh ==
    alertPc = "saved" =>
        \A k \in 1..Len(alertOut.stored) :
           LET row == alertOut.stored[k]
           IN  /\ ~AnyIn(AllWords, LowerStr(row.description))
                     => row.alert_type = "DEVIATION" /\ row.severity = "MEDIUM"
               /\ row.alert_type = "SAFETY_CONCERN" => row.severity \in {"HIGH", "CRITICAL"}

----------------------------------------------------------------------------
(* Temporal comparison: BIMAnalysisService._compare_with_previous_analysis *)

MaxCompared == 2     \* most elements in the current and in the previous analysis
MaxCatalogTotal == 3 \* largest catalog total of the compared project

\* {e.get("element_id") for e in elements if e.get("element_id")}
TruthyIds(elements) ==
    {elements[i].element_id : i \in {j \in 1..Len(elements) : elements[j].element_id # NoId}}

\* [f(e) for e in elements if e.get("element_id") in ids]
RECURSIVE DeltasOf(_, _, _)
DeltasOf(elements, ids, change_type) ==
    IF elements = <<>> THEN <<>>
    ELSE (IF Head(elements).element_id \in ids
          THEN <<[element_id |-> Head(elements).element_id, change_type |-> change_type,
                  status |-> Head(elements).status]>>
          ELSE <<>>)
         \o DeltasOf(Tail(elements), ids, change_type)

\* next((e for e in previous_elements if e.get("element_id") == id), None)
FirstWithId(elements, id) ==
    elements[CHOOSE i \in 1..Len(elements) :
                /\ elements[i].element_id = id
                /\ \A j \in 1..(i - 1) : elements[j].element_id # id]

\* the loop over current_elements that builds elements_changed
RECURSIVE ChangedOf(_, _, _)
ChangedOf(current_elements, previous_elements, common_ids) ==
    IF current_elements = <<>> THEN <<>>
    ELSE LET curr_elem == Head(current_elements)
             rest == ChangedOf(Tail(current_elements), previous_elements, common_ids)
         IN  IF curr_elem.element_id \notin common_ids THEN rest
             ELSE LET prev_elem == FirstWithId(previous_elements, curr_elem.element_id)
                  IN  IF curr_elem.status # prev_elem.status
                      THEN <<[element_id |-> curr_elem.element_id,
                              change_type |-> "status_change",
                              previous_status |-> prev_elem.status,
                              current_status |-> curr_elem.status]>> \o rest
                      ELSE rest

\* the except branch: the basic comparison
FallbackComparison ==
    [progress_change |-> 0, elements_added |-> <<>>, elements_removed |-> <<>>,
     elements_changed |-> <<>>, fell_back |-> TRUE]

\* _compare_with_previous_analysis.  self._calculate_overall_progress is not
\* a method of BIMAnalysisService: the call raises AttributeError unless the
\* attribute is bound to the repository's calculate_overall_progress
\* (progress_resolves); self.vlm.generate_text returns or raises (vlm_ok).
\* Whatever raises inside the try gives the basic comparison.
compare_with_previous_analysis(current_elements, previous_analysis, progress_resolves, vlm_ok) ==
    IF ~progress_resolves \/ ~vlm_ok THEN FallbackComparison
    ELSE LET previous_elements == previous_analysis.detected_elements
             current_progress == calculate_overall_progress(current_elements)
             current_ids == TruthyIds(current_elements)
             previous_ids == TruthyIds(previous_elements)
             added_ids == current_ids \ previous_ids
             removed_ids == previous_ids \ current_ids
             common_ids == current_ids \cap previous_ids
         IN  [progress_change |-> current_progress - previous_analysis.overall_progress,
              elements_added |-> DeltasOf(current_elements, added_ids, "new"),
              elements_removed |-> DeltasOf(previous_elements, removed_ids, "removed"),
              elements_changed |-> ChangedOf(current_elements, previous_elements, common_ids),
              fell_back |-> FALSE]

ComparedIds == <<"e1", "e2", "e3">>

\* the detected elements of an analysis: distinct ids (the merger keys them
\* by element_id), any statuses
ComparedElements(ids, statuses) ==
    [i \in 1..Len(ids) |-> [element_id |-> ids[i], status |-> statuses[i]]]

DistinctIdSeqs(n) ==
    {ids \in [1..n -> Range(ComparedIds)] : \A i, j \in 1..n : i # j => ids[i] # ids[j]}

PreviousProgress == {2000, 4500}

InitCompare ==
    /\ cmpPc = "call"
    /\ \E n \in 0..MaxCompared : \E cid \in DistinctIdSeqs(n) : \E cst \in [1..n -> ProgressStatus] :
       \E k \in 0..MaxCompared : \E pid \in DistinctIdSeqs(k) : \E pst \in [1..k -> ProgressStatus] :
       \E total \in 1..MaxCatalogTotal : \E prev \in PreviousProgress :
          cmpIn = [current_elements |-> ComparedElements(cid, cst),
                   total_elements |-> total,
                   previous_analysis |-> [overall_progress |-> prev,
                                          detected_elements |-> ComparedElements(pid, pst)]]
    /\ cmpOut = NoComparison
    /\ IdleEngine /\ IdleAlerts /\ IdleTimeline /\ IdleBatch /\ IdleService

CompareWithPrevious ==
    /\ cmpPc = "call"
    /\ cmpPc' = "done"
    /\ \E progress_resolves \in BOOLEAN, vlm_ok \in BOOLEAN :
          cmpOut' = compare_with_previous_analysis(cmpIn.current_elements,
                        cmpIn.previous_analysis, progress_resolves, vlm_ok)
    /\ UNCHANGED <<cmpIn, otherThanCompare>>

SpecCompare == InitCompare /\ [][CompareWithPrevious]_vars

\* the overall_progress reported in the current analysis's result
ReportedProgress ==
    bim_calculate_progress_metrics(cmpIn.current_elements, cmpIn.total_elements).overall_progress

\* C15 (as claimed): progress_change is the overall_progress reported for
\* the current analysis (computed over the catalog total) minus the previous
\* analysis's overall_progress.
C15_ProgressChange ==
    cmpPc = "done" =>
        cmpOut.progress_change = ReportedProgress - cmpIn.previous_analysis.overall_progress

IdsIn(deltas) == {deltas[i].element_id : i \in 1..Len(deltas)}

\* C16 (as claimed): elements_added holds exactly the current elements whose
\* id the previous analysis lacks, elements_removed exactly the previous
\* elements whose id the current one lacks, every elements_changed entry has
\* an id present in both, and no id is in more than one of the three lists.
C16_DeltaPartition ==
    cmpPc = "done" =>
        LET cur == IdsOf(cmpIn.current_elements)
            prv == IdsOf(cmpIn.previous_analysis.detected_elements)
        IN  /\ IdsIn(cmpOut.elements_added) = cur \ prv
            /\ Len(cmpOut.elements_added) = Cardinality(cur \ prv)
            /\ IdsIn(cmpOut.elements_removed) = prv \ cur
            /\ Len(cmpOut.elements_removed) = Cardinality(prv \ cur)
            /\ IdsIn(cmpOut.elements_changed) \subseteq cur \cap prv
            /\ IdsIn(cmpOut.elements_added) \cap IdsIn(cmpOut.elements_removed) = {}
            /\ IdsIn(cmpOut.elements_added) \cap IdsIn(cmpOut.elements_changed) = {}
            /\ IdsIn(cmpOut.elements_removed) \cap IdsIn(cmpOut.elements_changed) = {}

StatusIn(elements, id) ==
    (CHOOSE e \in Range(elements) : e.element_id = id).status

\* C17 (as claimed): an id present in both analyses has a status_change
\* entry, exactly one, carrying previous_status and current_status, if and
\* only if its status differs; a backward transition (COMPLETED before,
\* IN_PROGRESS now) is reported like any other.
C17_StatusChanges ==
    cmpPc = "done" =>
        \A id \in IdsOf(cmpIn.current_elements) \cap IdsOf(cmpIn.previous_analysis.detected_elements) :
           LET now == StatusIn(cmpIn.current_elements, id)
               before == StatusIn(cmpIn.previous_analysis.detected_elements, id)
               entries == {i \in 1..Len(cmpOut.elements_changed) :
                              cmpOut.elements_changed[i].element_id = id}
           IN  /\ Cardinality(entries) = (IF now # before THEN 1 ELSE 0)
               /\ \A i \in entries :
                     /\ cmpOut.elements_changed[i].previous_status = before
                     /\ cmpOut.elements_changed[i].current_status = now

----------------------------------------------------------------------------
(* Progress velocity: get_project_timeline (routes/bim.py and               *)
(* routes/bim/progress.py).  analyzed_at is in hours since the project      *)
(* started; velocity is in hundredths of a percent per day.                 *)

MaxAnalyses == 3     \* most stored analyses of the project

\* velocity = None
NoVelocity == <<>>

\* list.sort(key=lambda x: x.analyzed_at): stable insertion of one analysis
RECURSIVE InsertByTime(_, _)
InsertByTime(sorted, analysis) ==
    IF sorted = <<>> THEN <<analysis>>
    ELSE IF sorted[Len(sorted)].analyzed_at <= analysis.analyzed_at
    THEN Append(sorted, analysis)
    ELSE Append(InsertByTime(SubSeq(sorted, 1, Len(sorted) - 1), analysis),
                sorted[Len(sorted)])

RECURSIVE SortByTime(_)
SortByTime(analyses) ==
    IF analyses = <<>> THEN <<>>
    ELSE InsertByTime(SortByTime(SubSeq(analyses, 1, Len(analyses) - 1)),
                      analyses[Len(analyses)])

\* (later - earlier).days for datetimes given in hours
DaysBetween(earlier, later) == (later - earlier) \div 24

\* the velocity block of get_project_timeline, on the sorted analyses
timeline_velocity(analyses) ==
    IF Len(analyses) >= 2
    THEN LET first == analyses[1]
             last == analyses[Len(analyses)]
             time_diff == DaysBetween(first.analyzed_at, last.analyzed_at)
             progress_diff == last.overall_progress - first.overall_progress
         IN  IF time_diff > 0 THEN <<RoundHalfEven(progress_diff, time_diff)>> ELSE NoVelocity
    ELSE NoVelocity

\* get_project_timeline
get_project_timeline(stored, route) ==
    LET analyses == SortByTime(stored)
    IN  [route |-> route, analyses |-> analyses,
         total_analyses |-> Len(analyses),
         current_progress |-> IF analyses # <<>>
                              THEN analyses[Len(analyses)].overall_progress ELSE 0,
         velocity |-> timeline_velocity(analyses)]

\* times of analysis: the start, half a day, 5 days and 10 days later
AnalysisTimes == {0, 12, 120, 240}
StoredProgress == {2000, 4000, 4500}

InitTimeline ==
    /\ tlPc = "call"
    /\ \E n \in 0..MaxAnalyses :
          \E a \in [1..n -> [analyzed_at : AnalysisTimes, overall_progress : StoredProgress]] :
             tlIn = a
    /\ tlOut = <<>>
    /\ IdleEngine /\ IdleAlerts /\ IdleCompare /\ IdleBatch /\ IdleService

\* GET /bim/timeline/{project_id} of routes/bim.py
GetProjectTimeline ==
    /\ tlPc = "call"
    /\ tlPc' = "done"
    /\ tlOut' = get_project_timeline(tlIn, "bim.py")
    /\ UNCHANGED <<tlIn, otherThanTimeline>>

\* GET /bim/timeline/{project_id} of routes/bim/progress.py
GetProjectTimelineProgress ==
    /\ tlPc = "call"
    /\ tlPc' = "done"
    /\ tlOut' = get_project_timeline(tlIn, "bim/progress.py")
    /\ UNCHANGED <<tlIn, otherThanTimeline>>

NextTimeline ==
    \/ GetProjectTimeline
    \/ GetProjectTimelineProgress

SpecTimeline == InitTimeline /\ [][NextTimeline]_vars

\* the two analyses a velocity is between: the latest and the one before it
LatestPair ==
    LET n == Len(tlOut.analyses)
    IN  [previous |-> tlOut.analyses[n - 1], current |-> tlOut.analyses[n]]

\* C18 (as claimed): velocity is the progress change between the latest
\* analysis and the one before it divided by the days elapsed between them
\* (to 2 decimals), reported only when that number of days is > 0; with
\* fewer than two analyses or zero elapsed days it is null, never 0.
C18_VelocitySequential ==
    tlPc = "done" =>
        IF tlOut.total_analyses >= 2
           /\ DaysBetween(LatestPair.previous.analyzed_at, LatestPair.current.analyzed_at) > 0
        THEN tlOut.velocity =
                <<RoundHalfEven(
                     LatestPair.current.overall_progress - LatestPair.previous.overall_progress,
                     DaysBetween(LatestPair.previous.analyzed_at, LatestPair.current.analyzed_at))>>
        ELSE tlOut.velocity = NoVelocity

----------------------------------------------------------------------------
(* Batch analysis: BatchProcessingService.  One task per image; a task is  *)
(* "waiting" at async with self.semaphore, "running" inside                *)
(* analyze_construction_image, then "returned" or "raised".                *)

MaxImages == 4       \* most images given to one analyze_images_batch call

\* BatchProcessingService.__init__(max_concurrent=3)
default_max_concurrent == 3

\* the limits a service is constructed with
MaxConcurrentChoices == {1, 2, default_max_concurrent}

CanAcquireUnbounded(value) == TRUE

\* asyncio.Semaphore.acquire proceeds without waiting
CanAcquire(value) == value > 0

InFlight == {i \in 1..Len(batch.task) : batch.task[i] = "running"}

InitBatch ==
    /\ batchPc = "call"
    /\ \E n \in 0..MaxImages, limit \in MaxConcurrentChoices :
          batch = [max_concurrent |-> limit, value |-> limit,
                   task |-> [i \in 1..n |-> "created"], processed_results |-> <<>>]
    /\ IdleEngine /\ IdleAlerts /\ IdleCompare /\ IdleTimeline /\ IdleService

\* tasks = [...]; results = await asyncio.gather(*tasks, ...): every task
\* starts and reaches the semaphore
GatherTasks ==
    /\ batchPc = "call"
    /\ batchPc' = "gathering"
    /\ batch' = [batch EXCEPT !.task = [i \in 1..Len(batch.task) |-> "waiting"]]
    /\ UNCHANGED otherThanBatch

\* async with self.semaphore: (enter), then the analysis is awaited
AcquireSemaphore(i) ==
    /\ batchPc = "gathering"
    /\ batch.task[i] = "waiting"
    /\ CanAcquire(batch.value)
    /\ batch' = [batch EXCEPT !.value = @ - 1, !.task[i] = "running"]
    /\ UNCHANGED <<batchPc, otherThanBatch>>

\* analyze_construction_image returns; async with releases the semaphore
AnalysisReturns(i) ==
    /\ batchPc = "gathering"
    /\ batch.task[i] = "running"
    /\ batch' = [batch EXCEPT !.value = @ + 1, !.task[i] = "returned"]
    /\ UNCHANGED <<batchPc, otherThanBatch>>

AnalysisRaisesHoldingSlot(i) ==
    /\ batchPc = "gathering"
    /\ batch.task[i] = "running"
    /\ batch' = [batch EXCEPT !.task[i] = "raised"]
    /\ UNCHANGED <<batchPc, otherThanBatch>>

\* analyze_construction_image raises; async with releases the semaphore
AnalysisRaises(i) ==
    /\ batchPc = "gathering"
    /\ batch.task[i] = "running"
    /\ batch' = [batch EXCEPT !.value = @ + 1, !.task[i] = "raised"]
    /\ UNCHANGED <<batchPc, otherThanBatch>>

\* gather returns when every task has finished; the results are processed
\* in the order of the images
ProcessResults ==
    /\ batchPc = "gathering"
    /\ \A i \in 1..Len(batch.task) : batch.task[i] \in {"returned", "raised"}
    /\ batchPc' = "done"
    /\ batch' = [batch EXCEPT !.processed_results =
                    [i \in 1..Len(batch.task) |->
                        IF batch.task[i] = "raised"
                        THEN [filename |-> i, error |-> "str(result)", success |-> FALSE]
                        ELSE [filename |-> i, result |-> "result", success |-> TRUE]]]
    /\ UNCHANGED otherThanBatch

NextBatch ==
    \/ GatherTasks
    \/ \E i \in 1..Len(batch.task) : AcquireSemaphore(i)
    \/ \E i \in 1..Len(batch.task) : AnalysisReturns(i)
    \/ \E i \in 1..Len(batch.task) : AnalysisRaises(i)
    \/ ProcessResults

SpecBatch == InitBatch /\ [][NextBatch]_vars

\* C19: at any moment of analyze_images_batch at most max_concurrent calls
\* of analyze_construction_image are in flight, for any number of images and
\* any interleaving of their completions.
C19_BoundedInFlight ==
    /\ Cardinality(InFlight) <= batch.max_concurrent
    /\ batch.value >= 0
    /\ batchPc = "gathering" => batch.value + Cardinality(InFlight) = batch.max_concurrent

\* C19 witness: with the default limit of 3, three analyses are in flight
\* and another image waits for the semaphore
C19_Witness ==
    /\ batch.max_concurrent = default_max_concurrent
    /\ Cardinality(InFlight) = batch.max_concurrent
    /\ \E i \in 1..Len(batch.task) : batch.task[i] = "waiting"

----------------------------------------------------------------------------
(* Keyword matcher: confidences and statuses of its detections             *)

\* the fuzz.partial_ratio of the keywords of an element's type against the
\* description (100: one of them is a substring of it)
MentionOf(element, description) ==
    description.mention[CHOOSE k \in TypeKeys : TypeKeyIn(k, element.element_type)]

\* the keyword detections of one catalog element
KeywordHits(element) ==
    {j \in 1..Len(an.keyword_matches) :
        an.keyword_matches[j].element_id = element.element_id}

\* C23: every detection of the keyword matcher has confidence 0.85 when a
\* keyword of the element's type is a substring of the description, and
\* otherwise the fuzzy score / 100 capped at 0.90, the fuzzy score being at
\* least the threshold (80); a catalog element with neither match is not in
\* the output.
C23_KeywordConfidence ==
    anPc = "done" =>
        \A i \in 1..Len(project_data.elements) :
           LET element == project_data.elements[i]
               score == MentionOf(element, an.description)
               hits == KeywordHits(element)
           IN  /\ score = 100 =>
                     /\ hits # {}
                     /\ \A j \in hits : an.keyword_matches[j].confidence = 850
               /\ score # 100 =>
                     \A j \in hits :
                        /\ score >= 80
                        /\ an.keyword_matches[j].confidence = (IF score > 90 THEN 900 ELSE score * 10)
               /\ (score < 80 \/ (score # 100 /\ NameRatio(element.name) < 80)) => hits = {}

\* C23 witness: one analysis matched a Wall by an exact keyword (0.85), and
\* a Roof by a fuzzy score of 95, capped at 0.90
C23_Witness ==
    /\ anPc = "done"
    /\ Len(an.keyword_matches) = 2
    /\ an.description.mention["wall"] = 100
    /\ an.description.mention["roof"] = 95
    /\ an.keyword_matches[1].confidence = 850
    /\ an.keyword_matches[2].confidence = 900

\* C24: the status of a keyword-matched element follows the description's
\* cues with a fixed precedence: COMPLETED if a completed cue occurs,
\* otherwise IN_PROGRESS if an in-progress cue occurs, otherwise NOT_STARTED
\* if a missing / not-started cue occurs, otherwise IN_PROGRESS; all the
\* elements matched in one description get the same status.
C24_StatusPrecedence ==
    anPc = "done" =>
        /\ \A j \in 1..Len(an.keyword_matches) :
              LET status == an.keyword_matches[j].status
                  cues == an.description.cues
              IN  /\ "completed" \in cues => status = "COMPLETED"
                  /\ ("completed" \notin cues /\ "progress" \in cues) => status = "IN_PROGRESS"
                  /\ (cues = {"missing"}) => status = "NOT_STARTED"
                  /\ cues = {} => status = "IN_PROGRESS"
        /\ \A j, k \in 1..Len(an.keyword_matches) :
              an.keyword_matches[j].status = an.keyword_matches[k].status

\* C24 witness: a description with both an in-progress cue and a missing
\* cue matched two elements, both IN_PROGRESS
C24_Witness ==
    /\ anPc = "done"
    /\ an.description.cues = {"progress", "missing"}
    /\ Len(an.keyword_matches) = 2
    /\ \A j \in 1..2 : an.keyword_matches[j].status = "IN_PROGRESS"

----------------------------------------------------------------------------
(* Result merger: order and uniqueness of the merged list                  *)

\* the ids of rs in order of first occurrence, leaving out those in seen
RECURSIVE FirstIds(_, _)
FirstIds(rs, seen) ==
    IF rs = <<>> THEN <<>>
    ELSE IF Head(rs).element_id \in seen THEN FirstIds(Tail(rs), seen)
    ELSE <<Head(rs).element_id>> \o FirstIds(Tail(rs), seen \cup {Head(rs).element_id})

\* C25: the merged list holds every element_id at most once, lists the ids
\* of the vector results first, in order of first occurrence, then the
\* keyword-only ids in keyword-result order; the record of each id is fixed
\* by the inputs (the last vector record of the id, else its first keyword
\* record), so two merges of identical inputs return identical lists.
C25_MergeOrder ==
    mergePc = "done" =>
        LET ids == FirstIds(mergeIn.v, {}) \o FirstIds(mergeIn.k, IdsOf(mergeIn.v))
        IN  /\ \A i, j \in 1..Len(mergeOut) :
                  mergeOut[i].element_id = mergeOut[j].element_id => i = j
            /\ Len(mergeOut) = Len(ids)
            /\ \A i \in 1..Len(mergeOut) :
                  /\ mergeOut[i].element_id = ids[i]
                  /\ ids[i] \in IdsOf(mergeIn.v) =>
                        \E a \in 1..Len(mergeIn.v) :
                           /\ mergeOut[i] = mergeIn.v[a]
                           /\ \A b \in (a + 1)..Len(mergeIn.v) :
                                 mergeIn.v[b].element_id # ids[i]
                  /\ ids[i] \notin IdsOf(mergeIn.v) =>
                        \E a \in 1..Len(mergeIn.k) :
                           /\ mergeOut[i] = mergeIn.k[a]
                           /\ \A b \in 1..(a - 1) :
                                 mergeIn.k[b].element_id # ids[i]

\* C25 witness: the vector results name e2, e1, e2 and the keyword results
\* name e1 only; the merged list is e2, e1
C25_Witness ==
    /\ mergePc = "done"
    /\ Len(mergeIn.v) = 3 /\ Len(mergeIn.k) = 1
    /\ mergeIn.v[1].element_id = "e2" /\ mergeIn.v[2].element_id = "e1"
    /\ mergeIn.v[3].element_id = "e2"
    /\ Len(mergeOut) = 2
    /\ mergeOut[1].element_id = "e2" /\ mergeOut[2].element_id = "e1"

----------------------------------------------------------------------------
(* Batch analysis under the scheduling of the event loop                   *)

\* the analysis of image i terminates: it returns or it raises
AnalysisTerminates(i) ==
    /\ i \in 1..Len(batch.task)
    /\ AnalysisReturns(i) \/ AnalysisRaises(i)

\* The event loop runs every task that is ready: a released semaphore wakes
\* a waiting task, gather resumes its caller once every task has finished,
\* and each single analysis is assumed to terminate.
SpecBatchLive ==
    /\ SpecBatch
    /\ WF_vars(GatherTasks)
    /\ WF_vars(\E i \in 1..Len(batch.task) : AcquireSemaphore(i))
    /\ \A i \in 1..(MaxImages + 1) : WF_vars(AnalysisTerminates(i))
    /\ WF_vars(ProcessResults)

\* one entry per image, in the order of the images: {filename, error,
\* success: False} for an analysis that raised, the result with success:
\* True otherwise
OneResultPerImage ==
    /\ Len(batch.processed_results) = Len(batch.task)
    /\ \A i \in 1..Len(batch.task) :
          LET entry == batch.processed_results[i]
          IN  /\ entry.filename = i
              /\ batch.task[i] = "raised" =>
                    /\ DOMAIN entry = {"filename", "error", "success"}
                    /\ entry.success = FALSE
              /\ batch.task[i] = "returned" => entry.success = TRUE

\* C27: analyze_images_batch returns exactly one result per input image in
\* input order; an image whose analysis raises yields {filename, error,
\* success: False}, prevents no other image from being analyzed and
\* releases its slot, so that every image of a batch, also one larger than
\* max_concurrent, eventually gets a result provided each single analysis
\* terminates.
C27_EveryImageGetsResult ==
    /\ [](batchPc = "done" => OneResultPerImage)
    /\ <>(batchPc = "done")

\* C27 witness: a batch larger than max_concurrent finished with a failed
\* image before a successful one
C27_Witness ==
    /\ batchPc = "done"
    /\ Len(batch.task) > batch.max_concurrent
    /\ batch.task[1] = "raised"
    /\ batch.processed_results[1].success = FALSE
    /\ batch.processed_results[Len(batch.task)].success = TRUE

----------------------------------------------------------------------------
(* POST /analyze: routes/bim.py and routes/bim/analysis.py (the same body) *)
(* One action per await or store write.  The analyses stored for the       *)
(* project before the request are numbered 1..history, the latest last; a  *)
(* comparison is known by the number of the analysis it compares against.  *)

MaxHistory == 3       \* most analyses stored for the project beforehand
MaxRouteAlerts == 3   \* most alert texts in one analysis result

\* no previous analysis / comparison None
NoPrevious == 0

\* the dict returned by BIMAnalysisService.analyze_construction_image for
\* a project with the given history: detected_elements, overall_progress,
\* summary and processing_time are not read by the properties below
analyze_construction_image_result(alerts, history) ==
    [succeeded |-> TRUE, alerts |-> alerts]

\* analysis_result.get("comparison")
GetComparison(analysis_result) ==
    IF "comparison" \in DOMAIN analysis_result THEN analysis_result.comparison
    ELSE NoPrevious

InitAnalyze ==
    /\ analyzePc = "start"
    /\ \E exists \in BOOLEAN, h \in 0..MaxHistory :
          analyzeReq = [NoRequest EXCEPT !.project_exists = exists, !.history = h]
    /\ IdleEngine /\ IdleAlerts /\ IdleCompare /\ IdleTimeline /\ IdleBatch
    /\ IdleCompareRoute /\ IdleVlm

Respond(code) ==
    /\ analyzePc' = "responded"
    /\ analyzeReq' = [analyzeReq EXCEPT !.status = code]

LookupProjectUnchecked ==
    /\ analyzePc = "start"
    /\ analyzePc' = "found"
    /\ UNCHANGED <<analyzeReq, otherThanAnalyze>>

\* validations, then BIMProject.get(project_id): 400, 404 or go on
LookupProject ==
    /\ analyzePc = "start"
    /\ \E valid \in BOOLEAN :
          IF ~valid THEN Respond(400)
          ELSE IF ~analyzeReq.project_exists THEN Respond(404)
          ELSE analyzePc' = "found" /\ UNCHANGED analyzeReq
    /\ UNCHANGED otherThanAnalyze

\* await s3_client.upload_file(...)
UploadImage ==
    /\ analyzePc = "found"
    /\ \/ /\ analyzePc' = "uploaded"
          /\ analyzeReq' = [analyzeReq EXCEPT !.uploaded = TRUE]
       \/ Respond(500)
    /\ UNCHANGED otherThanAnalyze

\* analysis_result = await bim_service.analyze_construction_image(...,
\* image_description=...): the service's method has no image_description
\* parameter, so the call raises TypeError unless the parameter is accepted
RunAnalysis ==
    /\ analyzePc = "uploaded"
    /\ \E accepts \in BOOLEAN, raises \in BOOLEAN, n \in 0..MaxRouteAlerts :
          IF ~accepts \/ raises THEN Respond(500)
          ELSE /\ analyzePc' = "analyzed"
               /\ analyzeReq' = [analyzeReq EXCEPT !.analysis_result =
                      analyze_construction_image_result(n, analyzeReq.history)]
    /\ UNCHANGED otherThanAnalyze

\* the image document (a failure is logged only), the ConstructionAnalysis
\* result, then analysis_model.save()
SaveAnalysis ==
    /\ analyzePc = "analyzed"
    /\ \/ /\ analyzePc' = "saved"
          /\ analyzeReq' = [analyzeReq EXCEPT
                 !.comparison = GetComparison(analyzeReq.analysis_result),
                 !.analyses = Append(@, [number |-> analyzeReq.history + 1,
                       comparison |-> GetComparison(analyzeReq.analysis_result)])]
       \/ Respond(500)
    /\ UNCHANGED otherThanAnalyze

\* if result.alerts: await _save_alerts(...): a failing alert.save() is
\* logged and skipped; then the response
SaveAlertsAndRespond ==
    /\ analyzePc = "saved"
    /\ \E saved_count \in 0..analyzeReq.analysis_result.alerts :
          /\ analyzePc' = "responded"
          /\ analyzeReq' = [analyzeReq EXCEPT !.saved_alerts = saved_count, !.status = 200]
    /\ UNCHANGED otherThanAnalyze

NextAnalyze ==
    \/ LookupProject
    \/ UploadImage
    \/ RunAnalysis
    \/ SaveAnalysis
    \/ SaveAlertsAndRespond

SpecAnalyze == InitAnalyze /\ [][NextAnalyze]_vars

\* C21 (as claimed): whenever a previous analysis exists for the project,
\* the result of an analysis contains a comparison against the most recent
\* previous analysis; when none exists the comparison is absent.
C21_ComparisonWithLatest ==
    (analyzePc = "responded" /\ analyzeReq.status = 200) =>
        analyzeReq.comparison = analyzeReq.history

\* C28: an analysis record is persisted only after the analysis computation
\* has succeeded, and structured alerts only after that record was saved; a
\* request for a project that does not exist is answered 404, uploads no
\* image and persists no analysis and no alert.
C28_PersistenceOrder ==
    /\ analyzeReq.analyses # <<>> => analyzeReq.analysis_result.succeeded
    /\ analyzeReq.saved_alerts > 0 => analyzeReq.analyses # <<>>
    /\ (analyzeReq.status = 404 \/ (analyzePc # "idle" /\ ~analyzeReq.project_exists)) =>
          /\ ~analyzeReq.uploaded
          /\ analyzeReq.analyses = <<>>
          /\ analyzeReq.saved_alerts = 0
          /\ analyzeReq.status \in {0, 400, 404}

\* C28 witness: a request was answered 200 after its analysis record and
\* two of its alerts were stored
C28_Witness ==
    /\ analyzePc = "responded"
    /\ analyzeReq.status = 200
    /\ analyzeReq.uploaded
    /\ Len(analyzeReq.analyses) = 1
    /\ analyzeReq.saved_alerts = 2

----------------------------------------------------------------------------
(* GET /compare/{project_id}: routes/bim.py and routes/bim/comparison.py   *)
(* (the same body).  The request is for project "P"; the analyses table    *)
(* also holds analyses of project "Q".                                     *)

MaxRequestedIds == 2   \* most ids in the analysis_ids parameter

\* the rows of the analyses table, by analysis_id
StoredAnalysisIds == <<(<<"a", "1">>), (<<"a", "2">>), (<<"a", "3">>)>>

\* the items of analysis_ids.split(","): stored ids, one with blanks around
\* it, and an id that is not stored
RequestedTokens ==
    {StoredAnalysisIds[1], StoredAnalysisIds[2], StoredAnalysisIds[3],
     <<" ", "a", "2", " ">>, <<"a", "9">>}

\* ConstructionAnalysisModel.get(analysis_id) for each id, skipping
\* DoesNotExist; the rows found, in the order of the ids
RECURSIVE FetchAnalyses(_, _)
FetchAnalyses(table, ids) ==
    IF ids = <<>> THEN <<>>
    ELSE LET found == {i \in 1..Len(table) : table[i].analysis_id = Head(ids)}
         IN  (IF found = {} THEN <<>>
              ELSE LET analysis == table[CHOOSE i \in found : TRUE]
                   IN  <<[analysis_id |-> analysis.analysis_id,
                          analyzed_at |-> analysis.analyzed_at,
                          progress |-> analysis.overall_progress,
                          alerts |-> analysis.alerts]>>)
             \o FetchAnalyses(table, Tail(ids))

\* the handler: [status, comparisons, differences]
compare_analyses(project_exists, table, analysis_ids) ==
    LET ids == [i \in 1..Len(analysis_ids) |-> StripStr(analysis_ids[i])]
        comparisons == SortByTime(FetchAnalyses(table, ids))
        differences ==
            [i \in 1..(Len(comparisons) - 1) |->
                [from |-> comparisons[i].analysis_id,
                 to |-> comparisons[i + 1].analysis_id,
                 progress_change |-> comparisons[i + 1].progress - comparisons[i].progress,
                 new_alerts |-> comparisons[i + 1].alerts - comparisons[i].alerts]]
    IN  IF ~project_exists \/ comparisons = <<>>
        THEN [status |-> 404, comparisons |-> <<>>, differences |-> <<>>]
        ELSE [status |-> 200, comparisons |-> comparisons, differences |-> differences]

InitCompareRoute ==
    /\ compareRoutePc = "call"
    /\ \E exists \in BOOLEAN, owner \in [1..3 -> {"P", "Q"}], at \in [1..3 -> {0, 24}] :
       \E n \in 1..MaxRequestedIds : \E tokens \in [1..n -> RequestedTokens] :
          compareRoute =
             [project_exists |-> exists,
              table |-> [i \in 1..3 |->
                           [analysis_id |-> StoredAnalysisIds[i], project_id |-> owner[i],
                            analyzed_at |-> at[i], overall_progress |-> 1500 * i,
                            alerts |-> i % 2]],
              analysis_ids |-> tokens,
              status |-> 0, comparisons |-> <<>>, differences |-> <<>>]
    /\ IdleEngine /\ IdleAlerts /\ IdleCompare /\ IdleTimeline /\ IdleBatch
    /\ IdleAnalyze /\ IdleVlm

CompareAnalyses ==
    /\ compareRoutePc = "call"
    /\ compareRoutePc' = "responded"
    /\ LET r == compare_analyses(compareRoute.project_exists, compareRoute.table,
                                 compareRoute.analysis_ids)
       IN  compareRoute' = [compareRoute EXCEPT !.status = r.status,
                               !.comparisons = r.comparisons,
                               !.differences = r.differences]
    /\ UNCHANGED otherThanCompareRoute

SpecCompareRoute == InitCompareRoute /\ [][CompareAnalyses]_vars

\* the project a stored analysis belongs to
OwnerOf(analysis_id) ==
    (CHOOSE row \in Range(compareRoute.table) : row.analysis_id = analysis_id).project_id

\* C29 (as claimed): the compare endpoint for project P returns only
\* analyses that belong to P: an analysis of another project named in
\* analysis_ids never appears in the comparisons or the differences.
C29_OnlyOwnAnalyses ==
    compareRoutePc = "responded" =>
        /\ \A i \in 1..Len(compareRoute.comparisons) :
              OwnerOf(compareRoute.comparisons[i].analysis_id) = "P"
        /\ \A i \in 1..Len(compareRoute.differences) :
              /\ OwnerOf(compareRoute.differences[i].from) = "P"
              /\ OwnerOf(compareRoute.differences[i].to) = "P"

----------------------------------------------------------------------------
(* VLMStructuredOutput.analyze: the retry loop                             *)

MaxRetries == 2   \* largest max_retries given to analyze (its default is 2)

\* what one call of _generate does: it raises, or returns a text that has
\* no JSON object, a JSON object that json.loads rejects, a JSON object
\* that StructuredVLMOutput rejects, or a valid one
Generations == {"raises", "no_json", "bad_json", "bad_fields", "valid"}

\* VLMStructuredOutput._parse_json: every failure is caught and gives None
parse_json(output) == IF output = "valid" THEN "structured" ELSE "None"

InRangeInclusive(attempt, max_retries) == attempt <= max_retries + 1

\* for attempt in range(max_retries + 1)
InRange(attempt, max_retries) == attempt < max_retries + 1

InitVlm ==
    /\ vlmPc = "call"
    /\ \E r \in -1..MaxRetries :
          vlm = [max_retries |-> r, attempt |-> 0, tries |-> <<>>, result |-> "None"]
    /\ IdleEngine /\ IdleAlerts /\ IdleCompare /\ IdleTimeline /\ IdleBatch
    /\ IdleAnalyze /\ IdleCompareRoute

\* prompt = self._get_prompt(...) + the JSON instructions
BuildPrompt ==
    /\ vlmPc = "call"
    /\ vlmPc' = "loop"
    /\ UNCHANGED <<vlm, otherThanVlm>>

\* one iteration: await self._generate(...), self._parse_json(output); an
\* exception is logged and the loop goes on
Attempt ==
    /\ vlmPc = "loop"
    /\ InRange(vlm.attempt, vlm.max_retries)
    /\ \E g \in Generations :
          LET structured == IF g = "raises" THEN "None" ELSE parse_json(g)
          IN  IF structured # "None"
              THEN /\ vlm' = [vlm EXCEPT !.tries = Append(@, g), !.result = structured]
                   /\ vlmPc' = "returned"
              ELSE /\ vlm' = [vlm EXCEPT !.tries = Append(@, g), !.attempt = @ + 1]
                   /\ vlmPc' = "loop"
    /\ UNCHANGED otherThanVlm

\* the loop is exhausted: return None
ReturnNone ==
    /\ vlmPc = "loop"
    /\ ~InRange(vlm.attempt, vlm.max_retries)
    /\ vlmPc' = "returned"
    /\ vlm' = [vlm EXCEPT !.result = "None"]
    /\ UNCHANGED otherThanVlm

NextVlm ==
    \/ BuildPrompt
    \/ Attempt
    \/ ReturnNone

SpecVlm == InitVlm /\ [][NextVlm]_vars

\* C30: analyze makes at most max_retries + 1 generation attempts, stops at
\* the first attempt whose output parses into a structured result and
\* returns it, and returns None when every attempt failed to generate or
\* to parse.
C30_BoundedRetries ==
    LET n == Len(vlm.tries)
    IN  /\ n <= (IF vlm.max_retries < 0 THEN 0 ELSE vlm.max_retries + 1)
        /\ \A i \in 1..(n - 1) : vlm.tries[i] # "valid"
        /\ (n > 0 /\ vlm.tries[n] = "valid") =>
              vlmPc = "returned" /\ vlm.result = "structured"
        /\ (vlmPc = "returned" /\ \A i \in 1..n : vlm.tries[i] # "valid") =>
              /\ vlm.result = "None"
              /\ n = (IF vlm.max_retries < 0 THEN 0 ELSE vlm.max_retries + 1)

\* C30 witness: with max_retries = 2 the generation raised, then returned
\* text without JSON, and the third attempt gave the structured result
C30_Witness ==
    /\ vlmPc = "returned"
    /\ vlm.max_retries = 2
    /\ vlm.tries = <<"raises", "no_json", "valid">>
    /\ vlm.result = "structured"

----------------------------------------------------------------------------
(* Where the deduplicator runs                                             *)

\* no two records of a list have the same normalized identity
DistinctIdentities(fn, elements) ==
    \A g, h \in 1..Len(elements) :
       Identity(fn, elements[g]) = Identity(fn, elements[h]) => g = h

\* C22 (as claimed): the deduplicator runs at catalog ingestion, so the
\* catalog stored for a project never holds two elements with the same
\* normalized identity, and it runs again on a retrieval result set before
\* that set is used.
C22_DedupeAtIngestionAndRetrieval ==
    /\ dedupePc = "stored" => DistinctIdentities("dedupe_elements", dedupeOut1)
    /\ dedupePc = "retrieved" => DistinctIdentities("dedupe_ifc_elements", dedupeOut1)

----------------------------------------------------------------------------
(* Confidence of a whole analysis                                          *)

\* the detections of an analysis whose catalog element has the given type
DetectedOfType(element_type) ==
    {i \in 1..Len(an.detected_elements) :
        \E j \in 1..Len(project_data.elements) :
           /\ project_data.elements[j].element_id = an.detected_elements[i].element_id
           /\ project_data.elements[j].element_type = element_type}

\* result.get("confidence_score"): None when the result has no such key
GetConfidenceScore(result) ==
    IF "confidence_score" \in DOMAIN result THEN result.confidence_score ELSE None

\* C26 (as claimed): an analysis that detects a Roof COMPLETED and no Wall
\* has one HIGH geometric issue and a penaltyFactor below 1.0, its final
\* confidence_score being 0.85 * penaltyFactor; an analysis without such an
\* issue has penaltyFactor 1.0, hence confidence_score 0.85.
C26_GeometricPenalty ==
    anPc = "done" =>
        LET roofs == {i \in DetectedOfType("Roof") :
                         an.detected_elements[i].status = "COMPLETED"}
            score == GetConfidenceScore(an)
        IN  /\ (roofs # {} /\ DetectedOfType("Wall") = {}) => (score > 0 /\ score < 850)
            /\ roofs = {} => score = 850

====
